---------------------------- MODULE Spec2Model ----------------------------
(***************************************************************************)
(* Zero-Trust Redactor: the entity detection, fusion and redaction-matching *)
(* engine.                                                                  *)
(*                                                                          *)
(* Text is modelled as a sequence of one-character strings, so that         *)
(* trimming, case folding, whitespace collapsing and substring search are   *)
(* computed character by character as the JavaScript / Python code does.    *)
(* Confidence scores are integers in percent (0.5 is 50).                   *)
(*                                                                          *)
(* Several specifications share the module, among them:                     *)
(*   SpecFuse   the token merge loop of detectWithBert (ai-engine.js)       *)
(*   Spec       window.runScan of main.js with its detectors                *)
(*   SpecMatch  preview highlighting (renderPage) against the server's      *)
(*              redaction loop                                              *)
(***************************************************************************)
EXTENDS Integers, Sequences, FiniteSets, TLC

VARIABLES
    \* ---- token fusion (detectWithBert merge loop) ----
    fpc,              \* "loop" while iterating over results, "done" after the final flush
    idx,              \* number of tagger tokens consumed so far
    currentEntity,    \* the accumulator: NoEntity or [type, text, score]
    mergedEntities,   \* the entities pushed so far
    members,          \* history: the tokens merged into currentEntity
    closed,           \* history: every accumulator that was closed, with its tokens
    dropAt,           \* history: the tokens the open accumulator held when a token
                      \* was last dropped (0: none dropped since it was opened)
    \* ---- application state (main.js) ----
    doc,              \* the text in elements.inputText, as what each detector finds in it
    currentMode,      \* "fast" or "deep"
    currentDocType,   \* "auto" or a preset id
    activePresets,    \* array of preset ids
    customKeywords,   \* array of user keywords
    offlineMode,      \* window.offlineMode
    bertClassifier,   \* ai-engine.js: TRUE when the BERT pipeline is loaded
    llamaEngine,      \* ai-engine.js: TRUE when the Llama engine is loaded
    detectedEntities, \* array of entities (objects, or bare strings from Llama)
    manualEntities,   \* array of strings
    scanPc,           \* runScan: "idle", or what its await is waiting for
    intelFindings,    \* runScan's local, kept across the await
    modePc,           \* setMode: "idle" or "initLlama" while awaiting initLlama
    statusText,       \* the detail text of the last updateStatus call
    scanLog,          \* history: how the last scan ended and the candidates it had
    scanText,         \* runScan's local "text", kept across the await
    \* ---- one page: preview (renderPage) and commit (redaction request) ----
    pageItems,        \* textContent.items of the page: the str of each item
    highlightClass,   \* per item: "none", "highlight-entity", "highlight-manual"
    rendered,         \* TRUE once renderPage has built the text layer
    redactPc,         \* "idle", "sent" (request in flight), "done" (page redacted)
    formWords,        \* the request's 'words' field
    sensitiveWords,   \* server: sensitive_words after parsing
    redactAnnots,     \* server: the redact annotations added to the page
    redactReport,     \* runRedaction: its last toast, and allEntityTexts.length
    \* ---- the entity list of the sidebar (displayEntities) ----
    entitySearchQuery, \* the search filter
    entityList,       \* the filtered, sorted entities displayEntities renders
    displayPc,        \* "idle", or "shown" once displayEntities has run
    \* ---- the PDF viewer (main.js) ----
    pdfDocument,      \* numPages of the loaded document, 0 for null
    currentPdfPage,   \* the page of the single-page view
    pdfZoom,          \* the zoom, in quarters (4 is 1.0)
    currentView,      \* "text" or "pdf"
    pdfPages,         \* elements.pdfPages: the data-page of each page wrapper
    renders,          \* the renderPage calls in progress, each with its pageNum
    navLog,           \* history: the last navigation request and the page it found
    \* ---- keyboard shortcuts (main.js) ----
    shortcutListeners, \* keydown listeners added by setupKeyboardShortcuts
    \* ---- model setup (scripts/download-models.js) ----
    disk,             \* per model file: "missing", "empty" or "complete"
    manifest,         \* TRUE when manifest.json is in the model's directory
    filePos,          \* downloadModel: 0 not running, else the file its loop is at
    allSuccess        \* downloadModel's local

fuseVars == <<fpc, idx, currentEntity, mergedEntities, members, closed, dropAt>>

appVars == <<doc, currentMode, currentDocType, activePresets, customKeywords,
             offlineMode, bertClassifier, llamaEngine, detectedEntities,
             manualEntities, scanPc, intelFindings, modePc, statusText, scanLog,
             scanText>>

matchVars == <<pageItems, highlightClass, rendered, redactPc, formWords,
               sensitiveWords, redactAnnots, redactReport>>

viewVars == <<entitySearchQuery, entityList, displayPc>>

pdfVars == <<pdfDocument, currentPdfPage, pdfZoom, currentView, pdfPages, renders,
             navLog>>

setupVars == <<disk, manifest, filePos, allSuccess>>

shellVars == <<pdfVars, shortcutListeners, setupVars>>

vars == <<fuseVars, appVars, matchVars, viewVars, shellVars>>

-----------------------------------------------------------------------------
(* Strings *)

\* JavaScript's \s and String.prototype.trim, Python's str.split(): whitespace
Whitespace == {" ", "\t", "\n"}

UpperCase == <<"A","B","C","D","E","F","G","H","I","J","K","L","M",
               "N","O","P","Q","R","S","T","U","V","W","X","Y","Z">>
LowerCase == <<"a","b","c","d","e","f","g","h","i","j","k","l","m",
               "n","o","p","q","r","s","t","u","v","w","x","y","z">>

\* one character of String.prototype.toLowerCase
\* the lower-case letter of each upper-case letter
LowerOf ==
    [c \in {UpperCase[i] : i \in 1..Len(UpperCase)} |->
        LowerCase[CHOOSE i \in 1..Len(UpperCase) : UpperCase[i] = c]]

LowerChar(c) == IF c \in DOMAIN LowerOf THEN LowerOf[c] ELSE c

\* String.prototype.toLowerCase
ToLowerCase(s) == [i \in 1..Len(s) |-> LowerChar(s[i])]

\* s.startsWith(p)
StartsWith(s, p) == Len(s) >= Len(p) /\ SubSeq(s, 1, Len(p)) = p

RECURSIVE TrimLeft(_)
TrimLeft(s) == IF s # <<>> /\ s[1] \in Whitespace THEN TrimLeft(Tail(s)) ELSE s

RECURSIVE TrimRight(_)
TrimRight(s) ==
    IF s # <<>> /\ s[Len(s)] \in Whitespace
    THEN TrimRight(SubSeq(s, 1, Len(s) - 1))
    ELSE s

\* String.prototype.trim
Trim(s) == TrimRight(TrimLeft(s))

\* s.replace(/\s+/g, ' ')
RECURSIVE CollapseWhitespace(_)
CollapseWhitespace(s) ==
    IF s = <<>> THEN <<>>
    ELSE IF s[1] \in Whitespace
         THEN <<" ">> \o CollapseWhitespace(TrimLeft(s))
         ELSE <<s[1]>> \o CollapseWhitespace(Tail(s))

-----------------------------------------------------------------------------
(* Token fusion: the merge loop of detectWithBert *)

\* the longest tagger output the model feeds to the loop
MaxTokens == 3

\* "item.score < 0.5": the floor, in percent
ScoreFloor == 50

TagO    == <<"O">>
TagBPER == <<"B","-","P","E","R">>
TagIPER == <<"I","-","P","E","R">>
TagBLOC == <<"B","-","L","O","C">>
TagILOC == <<"I","-","L","O","C">>

WordJohn == <<"J","o","h","n">>
WordSon  == <<"#","#","s","o","n">>
WordNew  == <<"N","e","w">>
WordYork == <<"Y","o","r","k">>
WordI    == <<"I">>

\* what the external tagger (bertClassifier) may return for one sub-word piece
TokenTags   == {TagO, TagBPER, TagIPER, TagBLOC, TagILOC}
TokenWords  == {WordJohn, WordSon, WordNew, WordYork, WordI}
TokenScores == {40, 60, 90}
\* every tag with every word, below the floor (40) and above it (90); the two
\* continuation words also with the middle score, so that a span's best
\* token can come first or last
Tokens ==
    [entity : TokenTags, word : TokenWords, score : {40, 90}]
        \cup [entity : TokenTags, word : {WordSon, WordYork}, score : {60}]

\* item.entity.replace(/^[BI]-/, '')
EntityType(entity) ==
    IF Len(entity) >= 2 /\ entity[1] \in {"B", "I"} /\ entity[2] = "-"
    THEN SubSeq(entity, 3, Len(entity))
    ELSE entity

\* item.entity.startsWith('B-')
IsBegin(entity) == StartsWith(entity, <<"B", "-">>)

\* item.word.replace(/^##/, '')
StripSubword(word) ==
    IF StartsWith(word, <<"#", "#">>) THEN SubSeq(word, 3, Len(word)) ELSE word

Max(a, b) == IF a >= b THEN a ELSE b

\* mutant of Retained: the score floor is forgotten
RetainedAnyScore(item) == item.entity # TagO

\* the negation of "if (item.score < 0.5 || item.entity === 'O') continue"
Retained(item) == ~(item.score < ScoreFloor \/ item.entity = TagO)

\* mutant of StartsNew: the type comparison is forgotten
StartsNewOnBeginOnly(cur, item) == cur = <<>> \/ IsBegin(item.entity)

\* "isBegin || !currentEntity || currentEntity.type !== entityType";
\* cur is the accumulator as a sequence: <<>> is null, <<e>> is the object e
StartsNew(cur, item) ==
    IF cur = <<>>
    THEN TRUE
    ELSE IsBegin(item.entity) \/ cur[1].type # EntityType(item.entity)

\* "currentEntity = { type: entityType, text: word, score: item.score }"
NewEntity(item) ==
    [type |-> EntityType(item.entity), text |-> StripSubword(item.word), score |-> item.score]

\* mutant of Extend: every continuation is appended after a space
ExtendAlwaysSpace(e, item) ==
    [type  |-> e.type,
     text  |-> e.text \o <<" ">> \o StripSubword(item.word),
     score |-> Max(e.score, item.score)]

\* mutant of Extend: the score of the last token replaces the running maximum
ExtendLastScore(e, item) ==
    [type  |-> e.type,
     text  |-> IF StartsWith(item.word, <<"#", "#">>)
               THEN e.text \o StripSubword(item.word)
               ELSE e.text \o <<" ">> \o StripSubword(item.word),
     score |-> item.score]

\* the else branch: merge a sub-word or a further word into the accumulator
Extend(e, item) ==
    [type  |-> e.type,
     text  |-> IF StartsWith(item.word, <<"#", "#">>)
               THEN e.text \o StripSubword(item.word)
               ELSE e.text \o <<" ">> \o StripSubword(item.word),
     score |-> Max(e.score, item.score)]

\* mutant of PushIfSpan: the length test is ">= 1"
PushIfNonEmpty(merged, cur) ==
    IF cur # <<>> /\ Len(cur[1].text) >= 1
    THEN Append(merged, [text |-> cur[1].text, score |-> cur[1].score,
                         type |-> cur[1].type, source |-> "bert"])
    ELSE merged

\* "if (currentEntity && currentEntity.text.length > 1) mergedEntities.push({...})"
PushIfSpan(merged, cur) ==
    IF cur # <<>> /\ Len(cur[1].text) > 1
    THEN Append(merged, [text |-> cur[1].text, score |-> cur[1].score,
                         type |-> cur[1].type, source |-> "bert"])
    ELSE merged

\* history of closed accumulators (not program state)
Close(hist, cur, toks) ==
    IF cur # <<>> THEN Append(hist, [entity |-> cur[1], tokens |-> toks]) ELSE hist

FuseInit ==
    /\ fpc = "loop"
    /\ idx = 0
    /\ currentEntity = <<>>
    /\ mergedEntities = <<>>
    /\ members = <<>>
    /\ closed = <<>>
    /\ dropAt = 0

\* mutant of SkipToken: a dropped token closes the accumulator
SkipTokenFlushes ==
    /\ fpc = "loop"
    /\ idx < MaxTokens
    /\ \E item \in Tokens : ~Retained(item)
    /\ idx' = idx + 1
    /\ dropAt' = Len(members)
    /\ mergedEntities' = PushIfSpan(mergedEntities, currentEntity)
    /\ closed' = Close(closed, currentEntity, members)
    /\ currentEntity' = <<>>
    /\ members' = <<>>
    /\ UNCHANGED fpc
    /\ UNCHANGED appVars
    /\ UNCHANGED shellVars
    /\ UNCHANGED matchVars
    /\ UNCHANGED viewVars

\* one iteration that hits "continue"
SkipToken ==
    /\ fpc = "loop"
    /\ idx < MaxTokens
    /\ \E item \in Tokens : ~Retained(item)
    /\ idx' = idx + 1
    /\ dropAt' = Len(members)
    /\ UNCHANGED <<fpc, currentEntity, mergedEntities, members, closed>>
    /\ UNCHANGED appVars
    /\ UNCHANGED shellVars
    /\ UNCHANGED matchVars
    /\ UNCHANGED viewVars

\* one iteration that takes the "Start new entity" branch
StartEntity ==
    /\ fpc = "loop"
    /\ idx < MaxTokens
    /\ \E item \in Tokens :
          /\ Retained(item)
          /\ StartsNew(currentEntity, item)
          /\ mergedEntities' = PushIfSpan(mergedEntities, currentEntity)
          /\ closed' = Close(closed, currentEntity, members)
          /\ currentEntity' = <<NewEntity(item)>>
          /\ members' = <<item>>
    /\ idx' = idx + 1
    /\ dropAt' = 0
    /\ UNCHANGED fpc
    /\ UNCHANGED appVars
    /\ UNCHANGED shellVars
    /\ UNCHANGED matchVars
    /\ UNCHANGED viewVars

\* one iteration that takes the "Continue current entity" branch
ContinueEntity ==
    /\ fpc = "loop"
    /\ idx < MaxTokens
    /\ \E item \in Tokens :
          /\ Retained(item)
          /\ ~StartsNew(currentEntity, item)
          /\ currentEntity' = <<Extend(currentEntity[1], item)>>
          /\ members' = Append(members, item)
    /\ idx' = idx + 1
    /\ UNCHANGED <<fpc, mergedEntities, closed, dropAt>>
    /\ UNCHANGED appVars
    /\ UNCHANGED shellVars
    /\ UNCHANGED matchVars
    /\ UNCHANGED viewVars

\* the loop ends: "Don't forget the last entity"
EndOfStream ==
    /\ fpc = "loop"
    /\ mergedEntities' = PushIfSpan(mergedEntities, currentEntity)
    /\ closed' = Close(closed, currentEntity, members)
    /\ fpc' = "done"
    /\ UNCHANGED <<idx, currentEntity, members, dropAt>>
    /\ UNCHANGED appVars
    /\ UNCHANGED shellVars
    /\ UNCHANGED matchVars
    /\ UNCHANGED viewVars

FuseNext == SkipToken \/ StartEntity \/ ContinueEntity \/ EndOfStream

-----------------------------------------------------------------------------
(* The PDF viewer, the keyboard shortcuts and the model files: idle state,  *)
(* and the request to render the current page                               *)

\* most pages of a document, renderPage calls in progress, model files
MaxPages == 3
MaxRenders == 2
MaxFiles == 3

\* most keydown listeners of setupKeyboardShortcuts
MaxListeners == 3

\* pdfZoom in quarters: "let pdfZoom = 1.0", "pdfZoom < 3", "pdfZoom > 0.5"
ZoomOne == 4
ZoomMax == 12
ZoomMin == 2

\* the files of one model, in the order of model.files
ModelFiles == 1..MaxFiles

\* the start-up code calls setupKeyboardShortcuts and then initialize, which
\* calls it again
StartupListeners == 2

\* no navigation request was made
NoNav == [key |-> "none", from |-> 0]

\* the state of the module's "let" declarations, after the start-up code:
\* no document is loaded; nothing was downloaded
ShellIdle ==
    /\ pdfDocument = 0
    /\ currentPdfPage = 1
    /\ pdfZoom = ZoomOne
    /\ currentView = "pdf"
    /\ pdfPages = <<>>
    /\ renders = <<>>
    /\ navLog = NoNav
    /\ shortcutListeners = StartupListeners
    /\ disk = [f \in ModelFiles |-> "missing"]
    /\ manifest = FALSE
    /\ filePos = 0
    /\ allSuccess = TRUE

\* a renderPage(pageNum) call that has not yet appended its wrapper; thenView
\* is set for the call awaited by renderPDF, after which handleFile switches
\* to the PDF view
Render(pageNum, thenView) == [page |-> pageNum, thenView |-> thenView]

\* room for n more renderPage calls
CanRender(n) == Len(renders) + n <= MaxRenders

\* reRenderPDF called n times in a row with currentPdfPage = pageNum: each call
\* empties the container and starts renderPage
ReRenderPDF(pageNum, n) ==
    IF pdfDocument = 0 \/ n = 0
    THEN UNCHANGED <<pdfPages, renders>>
    ELSE /\ CanRender(n)
         /\ pdfPages' = <<>>
         /\ renders' = renders \o [i \in 1..n |-> Render(pageNum, FALSE)]

\* "if (currentView === 'pdf' && pdfDocument) reRenderPDF()" and nothing else
\* of the viewer
RefreshViewer ==
    /\ IF currentView = "pdf"
       THEN ReRenderPDF(currentPdfPage, 1)
       ELSE UNCHANGED <<pdfPages, renders>>
    /\ UNCHANGED <<pdfDocument, currentPdfPage, pdfZoom, currentView, navLog>>
    /\ UNCHANGED <<shortcutListeners, setupVars>>

-----------------------------------------------------------------------------
(* The rule scanner's output stage and the fusion of runScan *)

\* longest list of raw pattern matches, and of AI findings, for one text
MaxMatches == 2
MaxAi == 1

\* most manual entities
MaxManual == 1

\* rule findings get "score: 0.9", in percent
IntelScore == 90

\* matches of the "domain" pattern (flags gi) and of the "licensePlate" pattern
MatchDomain      == <<"a",".","i","o">>
MatchDomainUpper == <<"A",".","i","o">>
MatchPlate       == <<"A","1">>
MatchPlateSpaced == <<"A"," ","1">>
AnswerPlateWide  == <<"A"," "," ","1">>

\* what the regular expressions of the rule scanner may match in a text
PatternVocab == {MatchDomain, MatchDomainUpper, MatchPlate, MatchPlateSpaced}

\* what detectWithBert may resolve to: objects with the tagger's score
BertVocab ==
    [text : {MatchDomainUpper, MatchPlateSpaced}, score : {60, 95},
     type : {"PER"}, source : {"bert"}]

\* what detectWithLlama may resolve to when the engine answers: bare strings
LlamaVocab == {[str |-> AnswerPlateWide]}

\* sequences over S of length at most n
SeqUpTo(S, n) == UNION {[1..k -> S] : k \in 0..n}

\* no two elements of the sequence are equal
Distinct(q) == \A i, j \in 1..Len(q) : i # j => q[i] # q[j]

\* a text, as what the detectors find in it; an empty text has no findings
Docs ==
    {d \in [hasText  : BOOLEAN,
            patterns : SeqUpTo(PatternVocab, MaxMatches),
            bert     : SeqUpTo(BertVocab, MaxAi),
            llama    : SeqUpTo(LlamaVocab, MaxAi)] :
        /\ ~d.hasText => d.patterns = <<>> /\ d.bert = <<>> /\ d.llama = <<>>
        \* detectWithBert and detectWithLlama return lists without repeated texts
        /\ \A i, j \in 1..Len(d.bert) : i # j => Trim(d.bert[i].text) # Trim(d.bert[j].text)
        /\ Distinct(d.llama)}

PresetIds == {"bank-statement"}

\* "typeof e === 'string'": a bare string is the record [str |-> s]
IsString(e) == DOMAIN e = {"str"}

\* "typeof e === 'string' ? e : e.text"
EntityText(e) == IF IsString(e) THEN e.str ELSE e.text

\* s.replace(/\s\s/g, ' '): each pair of whitespace characters becomes a space
RECURSIVE CollapsePairs(_)
CollapsePairs(s) ==
    IF Len(s) < 2 THEN s
    ELSE IF s[1] \in Whitespace /\ s[2] \in Whitespace
         THEN <<" ">> \o CollapsePairs(SubSeq(s, 3, Len(s)))
         ELSE <<s[1]>> \o CollapsePairs(Tail(s))

\* mutant of NormalizeKey: whitespace is collapsed pair by pair
NormalizeKeyPairs(text) == CollapsePairs(Trim(ToLowerCase(text)))

\* "text.toLowerCase().trim().replace(/\s+/g, ' ')"
NormalizeKey(text) == CollapseWhitespace(Trim(ToLowerCase(text)))

\* Set.prototype.add on the insertion-ordered Set "findings"
SetAdd(findings, x) ==
    IF \E i \in 1..Len(findings) : findings[i] = x THEN findings ELSE Append(findings, x)

\* "matches.forEach(m => findings.add(m.trim()))"
RECURSIVE AddMatches(_, _)
AddMatches(findings, matches) ==
    IF matches = <<>> THEN findings
    ELSE AddMatches(SetAdd(findings, Trim(matches[1])), Tail(matches))

\* scanWithIntel, from the matches of its patterns to its return value:
\* "Array.from(findings).filter(item => item.trim().length >= 2)"
scanWithIntel(matches) ==
    SelectSeq(AddMatches(<<>>, matches), LAMBDA item : Len(Trim(item)) >= 2)

\* "presetsToUse": the document type, when one is selected, replaces the presets
PresetsToUse ==
    IF currentDocType # "auto" THEN <<currentDocType>> ELSE activePresets

\* runScan's intelFindings: the scanner runs only with a preset or a keyword
IntelFindingsOf(d) ==
    IF Len(PresetsToUse) > 0 \/ Len(customKeywords) > 0
    THEN scanWithIntel(d.patterns)
    ELSE <<>>

\* "intelFindings.map(f => ({ text: f, score: 0.9, type: 'pattern', source: 'intel' }))"
IntelObjects(findings) ==
    [i \in 1..Len(findings) |->
        [text |-> findings[i], score |-> IntelScore, type |-> "pattern", source |-> "intel"]]

\* the filter over [...aiFindings, ...intelObjects] with its "seen" map
RECURSIVE FuseFilter(_, _)
FuseFilter(list, seen) ==
    IF list = <<>> THEN <<>>
    ELSE LET text       == EntityText(list[1])
             normalized == NormalizeKey(text)
         IN  IF Len(Trim(text)) <= 2 THEN FuseFilter(Tail(list), seen)
             ELSE IF normalized \in seen THEN FuseFilter(Tail(list), seen)
             ELSE <<list[1]>> \o FuseFilter(Tail(list), seen \cup {normalized})

\* the concatenation with the rule findings put first
CombinedIntelFirst(aiFindings, findings) ==
    FuseFilter(IntelObjects(findings) \o aiFindings, {})

\* "combined"
Combined(aiFindings, findings) == FuseFilter(aiFindings \o IntelObjects(findings), {})

\* no scan has ended yet
\* no text: the input is empty, or no scan is running
NoText == [hasText |-> FALSE, patterns |-> <<>>, bert |-> <<>>, llama |-> <<>>]

NoScan == [kind |-> "none", candidates |-> <<>>]

\* the status detail initialize() leaves: both models, the tagger alone, or
\* none when initAllModels fails (the loading overlay stays)
InitialStatus(bert, llama) ==
    IF llama THEN "All AI models loaded"
    ELSE IF bert THEN "WebGPU not available for Deep Scan"
    ELSE ""

AppInit ==
    /\ doc \in Docs
    /\ currentMode = "fast"
    /\ currentDocType = "auto"
    /\ activePresets = <<>>
    /\ customKeywords = <<>>
    /\ offlineMode = FALSE
    /\ bertClassifier \in BOOLEAN
    /\ llamaEngine \in BOOLEAN
    /\ llamaEngine => bertClassifier
    /\ detectedEntities = <<>>
    /\ manualEntities = <<>>
    /\ scanPc = "idle"
    /\ intelFindings = <<>>
    /\ modePc = "idle"
    /\ statusText = InitialStatus(bertClassifier, llamaEngine)
    /\ scanLog = NoScan
    /\ scanText = NoText

\* the application part of the state while another component is examined
AppIdle ==
    /\ doc = [hasText |-> FALSE, patterns |-> <<>>, bert |-> <<>>, llama |-> <<>>]
    /\ currentMode = "fast"
    /\ currentDocType = "auto"
    /\ activePresets = <<>>
    /\ customKeywords = <<>>
    /\ offlineMode = FALSE
    /\ bertClassifier = FALSE
    /\ llamaEngine = FALSE
    /\ detectedEntities = <<>>
    /\ manualEntities = <<>>
    /\ scanPc = "idle"
    /\ intelFindings = <<>>
    /\ modePc = "idle"
    /\ statusText = InitialStatus(FALSE, FALSE)
    /\ scanLog = NoScan
    /\ scanText = NoText

\* window.useOfflineMode: the button of the failed-initialization overlay
UseOfflineMode ==
    /\ ~bertClassifier
    /\ offlineMode' = TRUE
    /\ UNCHANGED <<doc, currentMode, currentDocType, activePresets, customKeywords,
                   bertClassifier, llamaEngine, detectedEntities, manualEntities,
                   scanPc, intelFindings, modePc>>
    /\ statusText' = "Using pattern-based detection only"
    /\ UNCHANGED scanLog
    /\ UNCHANGED scanText
    /\ UNCHANGED fuseVars
    /\ UNCHANGED shellVars
    /\ UNCHANGED matchVars
    /\ UNCHANGED viewVars

\* window.setDocumentType
SetDocumentType ==
    /\ \E docType \in {"auto"} \cup PresetIds :
          currentDocType' = docType
    /\ UNCHANGED <<doc, currentMode, activePresets, customKeywords, offlineMode,
                   bertClassifier, llamaEngine, detectedEntities, manualEntities,
                   scanPc, intelFindings, modePc>>
    /\ UNCHANGED <<statusText, scanLog>>
    /\ UNCHANGED scanText
    /\ UNCHANGED fuseVars
    /\ UNCHANGED shellVars
    /\ UNCHANGED matchVars
    /\ UNCHANGED viewVars

\* window.togglePreset
TogglePreset ==
    /\ \E presetId \in PresetIds :
          activePresets' =
              IF \E i \in 1..Len(activePresets) : activePresets[i] = presetId
              THEN SelectSeq(activePresets, LAMBDA x : x # presetId)
              ELSE Append(activePresets, presetId)
    /\ UNCHANGED <<doc, currentMode, currentDocType, customKeywords, offlineMode,
                   bertClassifier, llamaEngine, detectedEntities, manualEntities,
                   scanPc, intelFindings, modePc>>
    /\ UNCHANGED <<statusText, scanLog>>
    /\ UNCHANGED scanText
    /\ UNCHANGED fuseVars
    /\ UNCHANGED shellVars
    /\ UNCHANGED matchVars
    /\ UNCHANGED viewVars

\* window.setMode up to its await: "currentMode = mode", then initLlama when
\* deep mode is chosen and the engine is not loaded
SetMode ==
    /\ modePc = "idle"
    /\ \E mode \in {"fast", "deep"} :
          /\ currentMode' = mode
          /\ modePc' = IF mode = "deep" /\ ~llamaEngine THEN "initLlama" ELSE "idle"
          /\ statusText' = IF mode = "deep" /\ ~llamaEngine
                           THEN "Downloading Llama 3 model"
                           ELSE statusText
    /\ UNCHANGED <<doc, currentDocType, activePresets, customKeywords, offlineMode,
                   bertClassifier, llamaEngine, detectedEntities, manualEntities,
                   scanPc, intelFindings>>
    /\ UNCHANGED scanLog
    /\ UNCHANGED scanText
    /\ UNCHANGED fuseVars
    /\ UNCHANGED shellVars
    /\ UNCHANGED matchVars
    /\ UNCHANGED viewVars

\* initLlama resolves with the engine, or with null (no WebGPU, missing
\* binaries, load error: it never throws); setMode continues after its await
SetModeResume ==
    /\ modePc = "initLlama"
    /\ llamaEngine' \in BOOLEAN
    /\ modePc' = "idle"
    /\ UNCHANGED <<doc, currentMode, currentDocType, activePresets, customKeywords,
                   offlineMode, bertClassifier, detectedEntities, manualEntities,
                   scanPc, intelFindings>>
    /\ statusText' = "Deep scan ready"
    /\ UNCHANGED scanLog
    /\ UNCHANGED scanText
    /\ UNCHANGED fuseVars
    /\ UNCHANGED shellVars
    /\ UNCHANGED matchVars
    /\ UNCHANGED viewVars

\* window.runScan in offline mode: no await, the whole handler in one step
RunScanOffline ==
    /\ scanPc = "idle"
    /\ doc.hasText
    /\ offlineMode
    /\ detectedEntities' = IntelObjects(IntelFindingsOf(doc))
    /\ UNCHANGED <<doc, currentMode, currentDocType, activePresets, customKeywords,
                   offlineMode, bertClassifier, llamaEngine, manualEntities,
                   scanPc, intelFindings, modePc>>
    /\ scanLog' = [kind |-> "offline", candidates |-> IntelObjects(IntelFindingsOf(doc))]
    /\ UNCHANGED statusText
    /\ UNCHANGED scanText
    /\ UNCHANGED fuseVars
    /\ RefreshViewer
    /\ UNCHANGED matchVars
    /\ UNCHANGED viewVars

\* window.runScan up to "await detectWithBert(text)" / "await detectWithLlama(text)":
\* scanPc names the call the handler waits for; detectWithBert throws at once
\* when the classifier is not loaded
RunScanStart ==
    /\ scanPc = "idle"
    /\ doc.hasText
    /\ ~offlineMode
    /\ intelFindings' = IntelFindingsOf(doc)
    /\ scanPc' = IF currentMode = "deep" /\ llamaEngine THEN "llama"
                 ELSE IF bertClassifier THEN "bert"
                 ELSE "rejected"
    /\ UNCHANGED <<doc, currentMode, currentDocType, activePresets, customKeywords,
                   offlineMode, bertClassifier, llamaEngine, detectedEntities,
                   manualEntities, modePc>>
    /\ UNCHANGED <<statusText, scanLog>>
    /\ scanText' = doc
    /\ UNCHANGED fuseVars
    /\ UNCHANGED shellVars
    /\ UNCHANGED matchVars
    /\ UNCHANGED viewVars

\* the Llama completion fails: "falling back to BERT"
LlamaFallsBack ==
    /\ scanPc = "llama"
    /\ scanPc' = IF bertClassifier THEN "bert" ELSE "rejected"
    /\ UNCHANGED <<doc, currentMode, currentDocType, activePresets, customKeywords,
                   offlineMode, bertClassifier, llamaEngine, detectedEntities,
                   manualEntities, intelFindings, modePc>>
    /\ UNCHANGED <<statusText, scanLog>>
    /\ UNCHANGED scanText
    /\ UNCHANGED fuseVars
    /\ UNCHANGED shellVars
    /\ UNCHANGED matchVars
    /\ UNCHANGED viewVars

\* mutant of RunScanFuse: the result is added to the list of the scan before
RunScanFuseAppends ==
    /\ scanPc \in {"bert", "llama"}
    /\ LET aiFindings == IF scanPc = "bert" THEN scanText.bert ELSE scanText.llama
       IN  /\ detectedEntities' = detectedEntities \o Combined(aiFindings, intelFindings)
           /\ scanLog' = [kind |-> "fused",
                          candidates |-> aiFindings \o IntelObjects(intelFindings)]
    /\ scanPc' = "idle"
    /\ intelFindings' = <<>>
    /\ UNCHANGED <<doc, currentMode, currentDocType, activePresets, customKeywords,
                   offlineMode, bertClassifier, llamaEngine, manualEntities, modePc>>
    /\ UNCHANGED statusText
    /\ scanText' = NoText
    /\ UNCHANGED fuseVars
    /\ RefreshViewer
    /\ UNCHANGED matchVars
    /\ UNCHANGED viewVars

\* the awaited detector resolves: runScan combines and stores the result
RunScanFuse ==
    /\ scanPc \in {"bert", "llama"}
    /\ LET aiFindings == IF scanPc = "bert" THEN scanText.bert ELSE scanText.llama
       IN  /\ detectedEntities' = Combined(aiFindings, intelFindings)
           /\ scanLog' = [kind |-> "fused",
                          candidates |-> aiFindings \o IntelObjects(intelFindings)]
    /\ scanPc' = "idle"
    /\ intelFindings' = <<>>
    /\ UNCHANGED <<doc, currentMode, currentDocType, activePresets, customKeywords,
                   offlineMode, bertClassifier, llamaEngine, manualEntities, modePc>>
    /\ UNCHANGED statusText
    /\ scanText' = NoText
    /\ UNCHANGED fuseVars
    /\ RefreshViewer
    /\ UNCHANGED matchVars
    /\ UNCHANGED viewVars

\* the awaited detector rejects: runScan's catch reports "Scan Failed"
RunScanFail ==
    /\ scanPc = "rejected"
    /\ scanPc' = "idle"
    /\ intelFindings' = <<>>
    /\ UNCHANGED <<doc, currentMode, currentDocType, activePresets, customKeywords,
                   offlineMode, bertClassifier, llamaEngine, detectedEntities,
                   manualEntities, modePc>>
    /\ scanLog' = [kind |-> "failed", candidates |-> IntelObjects(intelFindings)]
    /\ UNCHANGED statusText
    /\ scanText' = NoText
    /\ UNCHANGED fuseVars
    /\ UNCHANGED shellVars
    /\ UNCHANGED matchVars
    /\ UNCHANGED viewVars

\* the awaited bertClassifier call rejects: detectWithBert has no catch
BertFails ==
    /\ scanPc = "bert"
    /\ scanPc' = "rejected"
    /\ UNCHANGED <<doc, currentMode, currentDocType, activePresets, customKeywords,
                   offlineMode, bertClassifier, llamaEngine, detectedEntities,
                   manualEntities, intelFindings, modePc>>
    /\ UNCHANGED <<statusText, scanLog>>
    /\ UNCHANGED scanText
    /\ UNCHANGED fuseVars
    /\ UNCHANGED shellVars
    /\ UNCHANGED matchVars
    /\ UNCHANGED viewVars

\* the texts the operator may select: trimmed, longer than one character
SelectionVocab == {MatchDomainUpper}

\* addManualEntity, from the "add" button of the selection tooltip
AddManualEntity ==
    \E text \in SelectionVocab :
        LET included == \E i \in 1..Len(manualEntities) : manualEntities[i] = text
        IN  /\ included \/ Len(manualEntities) < MaxManual
            /\ manualEntities' =
                   IF included THEN manualEntities ELSE Append(manualEntities, text)
            /\ UNCHANGED <<doc, currentMode, currentDocType, activePresets,
                           customKeywords, offlineMode, bertClassifier, llamaEngine,
                           detectedEntities, scanPc, intelFindings, modePc>>
            /\ UNCHANGED <<statusText, scanLog>>
            /\ UNCHANGED scanText
            /\ UNCHANGED fuseVars
            /\ IF included THEN UNCHANGED shellVars ELSE RefreshViewer
            /\ UNCHANGED matchVars
            /\ UNCHANGED viewVars

-----------------------------------------------------------------------------
(* Preview highlighting (renderPage) and the redaction request *)

\* most text items on the page, most detected entities
MaxItems == 3
MaxEntities == 2

ItemAlmeida   == <<"A","l","m","e","i","d","a">>
ItemSantos    == <<"L"," "," ","P","I","N","T","O"," "," "," ","D","O","S"," "," ","S","A","N","T","O","S">>
ItemAl        == <<"A","l">>
WordALMEIDA   == <<"A","L","M","E","I","D","A">>
WordSantos    == <<"L"," ","P","I","N","T","O"," ","D","O","S"," ","S","A","N","T","O","S">>
WordSantosRaw == <<"L"," "," ","P","I","N","T","O"," ","D","O","S"," ","S","A","N","T","O","S"," ">>

ItemVocab == {ItemAlmeida, ItemSantos, ItemAl}
DetectedVocab ==
    [text : {WordALMEIDA, WordSantos}, score : {IntelScore},
     type : {"pattern"}, source : {"intel"}]
        \cup {[str |-> WordSantosRaw]}
ManualVocab == {ItemAlmeida}

\* String.prototype.includes
Includes(s, sub) ==
    \E p \in 0..(Len(s) - Len(sub)) : SubSeq(s, p + 1, p + Len(sub)) = sub

\* the text up to the first whitespace character
RECURSIVE FirstWord(_)
FirstWord(s) ==
    IF s = <<>> \/ s[1] \in Whitespace THEN <<>> ELSE <<s[1]>> \o FirstWord(Tail(s))

\* "s.split(/\s+/)": the pieces between whitespace runs; a leading or trailing
\* run leaves an empty piece
RECURSIVE SplitWhitespace(_)
SplitWhitespace(s) ==
    LET w    == FirstWord(s)
        rest == SubSeq(s, Len(w) + 1, Len(s))
    IN  IF rest = <<>> THEN <<w>> ELSE <<w>> \o SplitWhitespace(TrimLeft(rest))

\* the predicate renderPage passes to manualEntities.some / detectedEntities.some
MatchesItem(textLower, entityText) ==
    LET entityLower == ToLowerCase(entityText)
        words       == SplitWhitespace(entityLower)
    IN  \/ Includes(textLower, entityLower)
        \/ Includes(entityLower, textLower)
        \/ \E k \in 1..Len(words) : words[k] = textLower \/ Includes(textLower, words[k])

\* the class renderPage gives the span of one text item
SpanClass(str) ==
    LET text      == Trim(str)
        textLower == ToLowerCase(text)
    IN  IF Len(text) = 0 THEN "none"
        ELSE IF \E k \in 1..Len(manualEntities) : MatchesItem(textLower, manualEntities[k])
             THEN "highlight-manual"
        ELSE IF \E k \in 1..Len(detectedEntities) :
                    MatchesItem(textLower, EntityText(detectedEntities[k]))
             THEN "highlight-entity"
        ELSE "none"

\* renderPage: the text layer of the page
RenderPage ==
    /\ highlightClass' = [i \in 1..Len(pageItems) |-> SpanClass(pageItems[i])]
    /\ rendered' = TRUE
    /\ UNCHANGED <<pageItems, redactPc, formWords, sensitiveWords, redactAnnots,
                   redactReport>>
    /\ UNCHANGED appVars
    /\ UNCHANGED fuseVars
    /\ UNCHANGED shellVars
    /\ UNCHANGED viewVars

\* "[...new Set([...detectedTexts, ...manualEntities])]"
RECURSIVE AddAll(_, _)
AddAll(set, items) ==
    IF items = <<>> THEN set ELSE AddAll(SetAdd(set, items[1]), Tail(items))

AllEntityTexts ==
    AddAll(<<>>, [i \in 1..Len(detectedEntities) |-> EntityText(detectedEntities[i])]
                    \o manualEntities)

\* "sensitiveWords.join(',')"
RECURSIVE JoinComma(_)
JoinComma(words) ==
    IF words = <<>> THEN <<>>
    ELSE IF Len(words) = 1 THEN words[1]
    ELSE words[1] \o <<",">> \o JoinComma(Tail(words))

\* the text up to the first comma
RECURSIVE UpToComma(_)
UpToComma(s) ==
    IF s = <<>> \/ s[1] = "," THEN <<>> ELSE <<s[1]>> \o UpToComma(Tail(s))

\* ".split(',')"
RECURSIVE SplitComma(_)
SplitComma(s) ==
    LET w == UpToComma(s)
    IN  IF Len(w) = Len(s) THEN <<w>>
        ELSE <<w>> \o SplitComma(SubSeq(s, Len(w) + 2, Len(s)))

\* window.runRedaction up to the request of redactPDF
RunRedaction ==
    /\ redactPc = "idle"
    /\ Len(AllEntityTexts) # 0
    /\ formWords' = JoinComma(AllEntityTexts)
    /\ redactPc' = "sent"
    /\ redactReport' = [type |-> "info", items |-> Len(AllEntityTexts)]
    /\ UNCHANGED <<pageItems, highlightClass, rendered, sensitiveWords, redactAnnots>>
    /\ UNCHANGED appVars
    /\ UNCHANGED fuseVars
    /\ UNCHANGED shellVars
    /\ UNCHANGED viewVars

\* "[w.strip() for w in sensitive_words if w.strip()]"
StripWords(words) ==
    LET stripped == [i \in 1..Len(words) |-> Trim(words[i])]
    IN  SelectSeq(stripped, LAMBDA w : w # <<>>)

\* "' '.join(word.split())"
NormalizeWord(word) == CollapseWhitespace(Trim(word))

\* the end of the whitespace run of the page text that starts at p
RECURSIVE SkipWhitespace(_, _)
SkipWhitespace(page, p) ==
    IF p <= Len(page) /\ page[p] \in Whitespace THEN SkipWhitespace(page, p + 1) ELSE p

\* page.search_for at one position: the position after the hit that starts
\* at p, or 0 when the needle does not match there. With flags = 2 letters are
\* compared without case and a space of the needle stands for a whitespace run
\* of the page; with flags = 0 the comparison is exact
RECURSIVE MatchAt(_, _, _, _, _)
MatchAt(page, p, needle, i, flags) ==
    IF i > Len(needle) THEN p
    ELSE IF p > Len(page) THEN 0
    ELSE IF flags = 2 /\ needle[i] = " "
         THEN IF page[p] \in Whitespace
              THEN MatchAt(page, SkipWhitespace(page, p), needle, i + 1, flags)
              ELSE 0
    ELSE IF flags = 2 /\ LowerChar(page[p]) = LowerChar(needle[i])
         THEN MatchAt(page, p + 1, needle, i + 1, flags)
    ELSE IF flags = 0 /\ page[p] = needle[i]
         THEN MatchAt(page, p + 1, needle, i + 1, flags)
    ELSE 0

\* page.search_for: every hit from position p on, left to right, each hit
\* searched after the end of the one before
RECURSIVE SearchFrom(_, _, _, _)
SearchFrom(page, p, needle, flags) ==
    IF p > Len(page) THEN <<>>
    ELSE LET e == MatchAt(page, p, needle, 1, flags)
         IN  IF e > 0
             THEN <<[from |-> p, to |-> e - 1]>> \o SearchFrom(page, e, needle, flags)
             ELSE SearchFrom(page, p + 1, needle, flags)

search_for(page, needle, flags) == SearchFrom(page, 1, needle, flags)

\* text_instances with a case-sensitive search alone
TextInstancesExact(page, word) == search_for(page, NormalizeWord(word), 0)

\* text_instances: the case-insensitive search, then the exact fallback
TextInstances(page, word) ==
    LET word_normalized == NormalizeWord(word)
        found           == search_for(page, word_normalized, 2)
    IN  IF found = <<>> THEN search_for(page, word_normalized, 0) ELSE found

\* a loop that annotates the first instance alone
AnnotateFirst(annots, word, instances) ==
    IF instances = <<>> THEN annots
    ELSE Append(annots, [word |-> word, from |-> instances[1].from, to |-> instances[1].to])

\* "for inst in text_instances: page.add_redact_annot(inst, fill=(0, 0, 0))"
Annotate(annots, word, instances) ==
    annots \o [k \in 1..Len(instances) |->
                  [word |-> word, from |-> instances[k].from, to |-> instances[k].to]]

\* "for word in sensitive_words": the annotations of one page
RECURSIVE RedactPage(_, _, _)
RedactPage(annots, page, words) ==
    IF words = <<>> THEN annots
    ELSE IF words[1] = <<>> \/ Trim(words[1]) = <<>>
         THEN RedactPage(annots, page, Tail(words))
    ELSE RedactPage(Annotate(annots, words[1], TextInstances(page, words[1])),
                    page, Tail(words))

\* the text of the page the search runs on: its items in reading order
RECURSIVE Concat(_)
Concat(items) == IF items = <<>> THEN <<>> ELSE items[1] \o Concat(Tail(items))

PageText == Concat(pageItems)

\* the server's /redact handler on the page: parse 'words', answer 400 when
\* none is left, else run the redaction loop
ServerRedact ==
    /\ redactPc = "sent"
    /\ LET words == StripWords(SplitComma(formWords))
       IN  /\ sensitiveWords' = words
           /\ IF words = <<>>
              THEN redactPc' = "failed" /\ UNCHANGED redactAnnots
              ELSE /\ redactPc' = "done"
                   /\ redactAnnots' = RedactPage(<<>>, PageText, words)
    /\ UNCHANGED <<pageItems, highlightClass, rendered, formWords, redactReport>>
    /\ UNCHANGED appVars
    /\ UNCHANGED fuseVars
    /\ UNCHANGED shellVars
    /\ UNCHANGED viewVars

\* no redaction was run yet
NoReport == [type |-> "none", items |-> 0]

\* window.runRedaction after "await redactPDF(...)": the 'Complete!' toast with
\* allEntityTexts.length when the server answered with the file, the
\* 'Redaction Failed' toast when it answered with an error
RedactionReported ==
    /\ redactPc \in {"done", "failed"}
    /\ redactReport' = [redactReport EXCEPT
                            !.type = IF redactPc = "done" THEN "success" ELSE "error"]
    /\ redactPc' = "reported"
    /\ UNCHANGED <<pageItems, highlightClass, rendered, formWords, sensitiveWords,
                   redactAnnots>>
    /\ UNCHANGED appVars
    /\ UNCHANGED fuseVars
    /\ UNCHANGED shellVars
    /\ UNCHANGED viewVars

\* the page state while another component is examined
MatchIdle ==
    /\ pageItems = <<>>
    /\ highlightClass = <<>>
    /\ rendered = FALSE
    /\ redactPc = "idle"
    /\ formWords = <<>>
    /\ sensitiveWords = <<>>
    /\ redactAnnots = <<>>
    /\ redactReport = NoReport

\* a loaded page and the entity lists of a finished scan
MatchInit ==
    /\ pageItems \in SeqUpTo(ItemVocab, MaxItems)
    /\ highlightClass = [i \in 1..Len(pageItems) |-> "none"]
    /\ rendered = FALSE
    /\ redactPc = "idle"
    /\ formWords = <<>>
    /\ sensitiveWords = <<>>
    /\ redactAnnots = <<>>
    /\ redactReport = NoReport
    /\ detectedEntities \in SeqUpTo(DetectedVocab, MaxEntities)
    /\ manualEntities \in SeqUpTo(ManualVocab, MaxManual)
    /\ Distinct(manualEntities)
    /\ doc = [hasText |-> TRUE, patterns |-> <<>>, bert |-> <<>>, llama |-> <<>>]
    /\ currentMode = "fast"
    /\ currentDocType = "auto"
    /\ activePresets = <<>>
    /\ customKeywords = <<>>
    /\ offlineMode = FALSE
    /\ bertClassifier = TRUE
    /\ llamaEngine = FALSE
    /\ scanPc = "idle"
    /\ intelFindings = <<>>
    /\ modePc = "idle"
    /\ statusText = InitialStatus(TRUE, FALSE)
    /\ scanLog = NoScan
    /\ scanText = NoText

MatchNext == RenderPage \/ RunRedaction \/ ServerRedact

\* a redaction from the click to its toast
ReportNext == RunRedaction \/ ServerRedact \/ RedactionReported

-----------------------------------------------------------------------------
(* The entity list of the sidebar: displayEntities *)

QueryVocab == {<<>>, <<"a","l">>}

DisplayVocab ==
    [text : {WordALMEIDA}, score : {IntelScore}, type : {"pattern"}, source : {"intel"}]
        \cup [text : {ItemAlmeida, ItemAl}, score : {60, IntelScore},
              type : {"PER"}, source : {"bert"}]
        \cup {[str |-> WordSantosRaw]}

\* "allEntities": the detected entities, then the manual ones; a score is
\* <<n>>, or <<>> for the null of a bare string
AllEntities ==
    [i \in 1..Len(detectedEntities) |->
        LET e == detectedEntities[i]
        IN  IF IsString(e)
            THEN [text |-> e.str, score |-> <<>>, source |-> "ai",
                  entityType |-> "unknown", type |-> "auto", index |-> i - 1]
            ELSE [text |-> e.text, score |-> <<e.score>>, source |-> e.source,
                  entityType |-> e.type, type |-> "auto", index |-> i - 1]]
    \o
    [i \in 1..Len(manualEntities) |->
        [text |-> manualEntities[i], score |-> <<100>>, source |-> "manual",
         entityType |-> "manual", type |-> "manual", index |-> i - 1]]

\* "score || 0"
ScoreOrZero(e) == IF e.score = <<>> THEN 0 ELSE e.score[1]

\* the search filter: every entity when the query is blank
FilterEntities(entities, query) ==
    IF Trim(query) = <<>> THEN entities
    ELSE SelectSeq(entities,
                   LAMBDA e : Includes(ToLowerCase(e.text), ToLowerCase(query)))

\* an insertion that puts the entity before the ones of equal score
RECURSIVE InsertBeforeEqual(_, _)
InsertBeforeEqual(sorted, e) ==
    IF sorted = <<>> THEN <<e>>
    ELSE IF ScoreOrZero(sorted[1]) > ScoreOrZero(e)
         THEN <<sorted[1]>> \o InsertBeforeEqual(Tail(sorted), e)
    ELSE <<e>> \o sorted

\* one step of the stable sort by "(b.score || 0) - (a.score || 0)": the
\* entity goes after every entity that does not sort after it
RECURSIVE InsertByScore(_, _)
InsertByScore(sorted, e) ==
    IF sorted = <<>> THEN <<e>>
    ELSE IF ScoreOrZero(sorted[1]) >= ScoreOrZero(e)
         THEN <<sorted[1]>> \o InsertByScore(Tail(sorted), e)
    ELSE <<e>> \o sorted

\* "filteredEntities.sort(...)": Array.prototype.sort is stable
RECURSIVE SortByScore(_, _)
SortByScore(sorted, entities) ==
    IF entities = <<>> THEN sorted
    ELSE SortByScore(InsertByScore(sorted, entities[1]), Tail(entities))

\* displayEntities up to pagination
DisplayEntities ==
    /\ entityList' = SortByScore(<<>>, FilterEntities(AllEntities, entitySearchQuery))
    /\ displayPc' = "shown"
    /\ UNCHANGED entitySearchQuery
    /\ UNCHANGED appVars
    /\ UNCHANGED fuseVars
    /\ UNCHANGED shellVars
    /\ UNCHANGED matchVars

\* the sidebar while another component is examined
ViewIdle ==
    /\ entitySearchQuery = <<>>
    /\ entityList = <<>>
    /\ displayPc = "idle"

\* the entity lists of a finished scan, before the sidebar is drawn
DisplayInit ==
    /\ entitySearchQuery \in QueryVocab
    /\ entityList = <<>>
    /\ displayPc = "idle"
    /\ detectedEntities \in SeqUpTo(DisplayVocab, MaxEntities)
    /\ manualEntities \in SeqUpTo(ManualVocab, MaxManual)
    /\ Distinct(manualEntities)
    /\ doc = [hasText |-> TRUE, patterns |-> <<>>, bert |-> <<>>, llama |-> <<>>]
    /\ currentMode = "fast"
    /\ currentDocType = "auto"
    /\ activePresets = <<>>
    /\ customKeywords = <<>>
    /\ offlineMode = FALSE
    /\ bertClassifier = TRUE
    /\ llamaEngine = FALSE
    /\ scanPc = "idle"
    /\ intelFindings = <<>>
    /\ modePc = "idle"
    /\ statusText = InitialStatus(TRUE, FALSE)
    /\ scanLog = NoScan
    /\ scanText = NoText

-----------------------------------------------------------------------------
(* The rule scanner on a text: scanWithIntel's keyword and custom-keyword   *)
(* passes                                                                   *)

\* the longest document text of the scanner's runs, in words of TextTokens
MaxTextTokens == 3

\* "context = text.substring(idx, idx + 100)"
ContextLen == 100
\* the captured group "([^\n,;]{2,50})"
MinValue == 2
MaxValue == 50

KwSsn == <<"s", "s", "n">>
KwSsnUpper == <<"S", "S", "N">>
ValueXyz == <<"x", "y", "z">>
WordThe == <<"t", "h", "e">>

\* the pieces the scanned texts are made of.  No universal pattern, name
\* pattern or pattern of the 'employment' preset matches a text made of them
\* (each needs a digit, a currency sign, '@', '.', a title or label word, or
\* a capital followed by small letters), and 'ssn' is the only keyword of the
\* preset that occurs in one.
TextTokens == {KwSsn, KwSsnUpper, <<":">>, <<",">>, <<" ">>, ValueXyz, WordThe}

Texts == {Concat(q) : q \in SeqUpTo(TextTokens, MaxTextTokens)}

\* INTEL_PRESETS, by id: the keywords of a preset that can occur in Texts
INTEL_PRESETS == [id \in {"employment"} |-> [keywords |-> <<KwSsn>>]]

UnknownPreset == "no-such-preset"

PresetLists == {<<>>, <<"employment">>, <<UnknownPreset>>, <<UnknownPreset, "employment">>}

KeywordLists ==
    {<<>>, << <<>> >>, << <<" ">> >>, <<KwSsn>>, << <<>>, ValueXyz >>,
     <<ValueXyz, ValueXyz \o <<" ">> >>}

\* isCommonWord's list, the words that can occur in Texts
CommonWords == {WordThe}

\* isCommonWord(text)
isCommonWord(text) == Trim(ToLowerCase(text)) \in CommonWords

Min(a, b) == IF a <= b THEN a ELSE b

\* s.substring(from, to), positions counted from 0
Substring(s, from, to) == SubSeq(s, from + 1, Min(to, Len(s)))

\* s.indexOf(sub, from): the first position at or after from, or -1
IndexOf(s, sub, from) ==
    LET hits == {p \in from..(Len(s) - Len(sub)) : SubSeq(s, p + 1, p + Len(sub)) = sub}
    IN IF hits = {} THEN -1 ELSE CHOOSE p \in hits : \A q \in hits : p <= q

\* the number of consecutive characters of s from position i (from 1) that
\* are in class
RECURSIVE RunIn(_, _, _)
RunIn(s, i, class) ==
    IF i > Len(s) THEN 0
    ELSE IF s[i] \in class THEN 1 + RunIn(s, i + 1, class) ELSE 0

\* ... that are outside class
RECURSIVE RunNotIn(_, _, _)
RunNotIn(s, i, class) ==
    IF i > Len(s) THEN 0
    ELSE IF s[i] \in class THEN 0 ELSE 1 + RunNotIn(s, i + 1, class)

\* "context.match(/^[^:=\n]*[:=]?\s*([^\n,;]{2,50})/)": the captured group of
\* the first match in the order a backtracking matcher tries them (longest
\* prefix first, then the separator taken before left out, then longest
\* whitespace run first), or <<>> for no match
ValueMatch(context) ==
    LET P == RunNotIn(context, 1, {":", "=", "\n"})
        Sep(p) == IF p < Len(context)
                  THEN (IF context[p + 1] \in {":", "="} THEN {0, 1} ELSE {0})
                  ELSE {0}
        tries == {t \in (0..P) \X {0, 1} \X (0..Len(context)) :
                     /\ t[2] \in Sep(t[1])
                     /\ t[3] <= RunIn(context, t[1] + t[2] + 1, Whitespace)
                     /\ RunNotIn(context, t[1] + t[2] + t[3] + 1, {"\n", ",", ";"})
                            >= MinValue}
        Before(a, b) == \/ a[1] > b[1]
                        \/ a[1] = b[1] /\ a[2] > b[2]
                        \/ a[1] = b[1] /\ a[2] = b[2] /\ a[3] >= b[3]
    IN IF tries = {} THEN <<>>
       ELSE LET t == CHOOSE a \in tries : \A b \in tries : Before(a, b)
                start == t[1] + t[2] + t[3]
                n == Min(RunNotIn(context, start + 1, {"\n", ",", ";"}), MaxValue)
            IN <<SubSeq(context, start + 1, start + n)>>

\* the while loop of the keyword-based extraction, from the occurrence at pos
RECURSIVE ExtractValues(_, _, _, _)
ExtractValues(findings, text, keywordLower, pos) ==
    IF pos = -1 THEN findings
    ELSE LET valueMatch == ValueMatch(Substring(text, pos, pos + ContextLen))
             value == IF valueMatch = <<>> THEN <<>> ELSE Trim(valueMatch[1])
             added == IF /\ valueMatch # <<>>
                         /\ Len(value) > 2
                         /\ ToLowerCase(value) # keywordLower
                         /\ ~isCommonWord(value)
                      THEN SetAdd(findings, value)
                      ELSE findings
         IN ExtractValues(added, text, keywordLower,
                          IndexOf(ToLowerCase(text), keywordLower, pos + 1))

\* "preset.keywords.forEach(keyword => ...)"
RECURSIVE ScanKeywords(_, _, _)
ScanKeywords(findings, text, keywords) ==
    IF keywords = <<>> THEN findings
    ELSE LET keywordLower == ToLowerCase(keywords[1])
         IN ScanKeywords(ExtractValues(findings, text, keywordLower,
                                       IndexOf(ToLowerCase(text), keywordLower, 0)),
                         text, Tail(keywords))

\* a preset scanned without looking whether it exists: reading the patterns
\* of an undefined preset throws
ScanPresetUnchecked(scan, text, presetId) ==
    IF presetId \in DOMAIN INTEL_PRESETS
    THEN [scan EXCEPT !.findings =
              ScanKeywords(scan.findings, text, INTEL_PRESETS[presetId].keywords)]
    ELSE [scan EXCEPT !.threw = TRUE]

\* the body of "activePresets.forEach(presetId => ...)":
\* "if (!preset) return;", then the keywords of the preset
ScanPreset(scan, text, presetId) ==
    IF presetId \in DOMAIN INTEL_PRESETS
    THEN [scan EXCEPT !.findings =
              ScanKeywords(scan.findings, text, INTEL_PRESETS[presetId].keywords)]
    ELSE scan

RECURSIVE ScanPresets(_, _, _)
ScanPresets(scan, text, presets) ==
    IF presets = <<>> \/ scan.threw THEN scan
    ELSE ScanPresets(ScanPreset(scan, text, presets[1]), text, Tail(presets))

\* the while loop over the case-preserved occurrences of a custom keyword
RECURSIVE AddOccurrences(_, _, _, _)
AddOccurrences(findings, text, keyword, pos) ==
    IF pos = -1 THEN findings
    ELSE AddOccurrences(SetAdd(findings, Substring(text, pos, pos + Len(keyword))),
                        text, keyword,
                        IndexOf(ToLowerCase(text), ToLowerCase(keyword), pos + 1))

\* "customKeywords.forEach(keyword => { if (keyword.trim() && ...) ... })"
RECURSIVE AddCustomKeywords(_, _, _)
AddCustomKeywords(findings, text, keywords) ==
    IF keywords = <<>> THEN findings
    ELSE LET keyword == keywords[1]
             added == IF /\ Trim(keyword) # <<>>
                         /\ Includes(ToLowerCase(text), ToLowerCase(keyword))
                      THEN AddOccurrences(findings, text, keyword,
                                          IndexOf(ToLowerCase(text), ToLowerCase(keyword), 0))
                      ELSE findings
         IN AddCustomKeywords(added, text, Tail(keywords))

\* scanWithIntel(text, activePresets, customKeywords), the matches of its
\* universal patterns given: whether it threw, and the array it returns
scanWithIntelText(text, matches, presets, keywords) ==
    LET scanned == ScanPresets([threw |-> FALSE, findings |-> AddMatches(<<>>, matches)],
                               text, presets)
    IN IF scanned.threw THEN scanned
       ELSE [threw |-> FALSE,
             findings |-> SelectSeq(AddCustomKeywords(scanned.findings, text, keywords),
                                    LAMBDA item : Len(Trim(item)) >= 2)]

\* runScan about to call the scanner on an extracted text
IntelInit ==
    /\ doc \in {[hasText |-> TRUE, patterns |-> <<>>, bert |-> <<>>, llama |-> <<>>,
                 text |-> t] : t \in Texts}
    /\ activePresets \in PresetLists
    /\ customKeywords \in KeywordLists
    /\ scanPc = "intel"
    /\ intelFindings = <<>>
    /\ currentMode = "fast"
    /\ currentDocType = "auto"
    /\ offlineMode = FALSE
    /\ bertClassifier = TRUE
    /\ llamaEngine = FALSE
    /\ detectedEntities = <<>>
    /\ manualEntities = <<>>
    /\ modePc = "idle"
    /\ statusText = InitialStatus(TRUE, FALSE)
    /\ scanLog = NoScan
    /\ scanText = NoText

\* "intelFindings = scanWithIntel(text, presetsToUse, customKeywords)"
ScanWithIntel ==
    /\ scanPc = "intel"
    /\ LET scan == scanWithIntelText(doc.text, doc.patterns, PresetsToUse, customKeywords)
       IN /\ intelFindings' = scan.findings
          /\ scanPc' = IF scan.threw THEN "threw" ELSE "scanned"
    /\ UNCHANGED <<doc, currentMode, currentDocType, activePresets, customKeywords,
                   offlineMode, bertClassifier, llamaEngine, detectedEntities,
                   manualEntities, modePc, statusText, scanLog>>
    /\ UNCHANGED scanText
    /\ UNCHANGED fuseVars
    /\ UNCHANGED shellVars
    /\ UNCHANGED matchVars
    /\ UNCHANGED viewVars

-----------------------------------------------------------------------------
(* The free-text adapter: detectWithLlama on the extractor's response *)

\* the longest response of the extractor, in pieces of ResponseTokens
MaxResponseTokens == 4

Digits == {"0", "1", "2", "3", "4", "5", "6", "7", "8", "9"}
Letters == {UpperCase[i] : i \in 1..Len(UpperCase)} \cup {LowerCase[i] : i \in 1..Len(LowerCase)}
Quotes == {"\"", "'"}

\* the character U+2022, a bullet
Bullet == "bullet"

\* "[-<U+2022>*\d.)\]]"
MarkerChars == {"-", Bullet, "*", ".", ")", "]"} \cup Digits

SentinelNone == <<"N", "O", "N", "E">>
PhraseNoPii == <<"n", "o", " ", "p", "i", "i">>
PhraseNoSensitive == <<"n", "o", " ", "s", "e", "n", "s", "i", "t", "i", "v", "e">>
PhraseNoneFound == <<"n", "o", "n", "e", " ", "f", "o", "u", "n", "d">>
PrefixNo == <<"n", "o", " ">>

\* the pieces the extractor's responses are made of
ResponseTokens ==
    {<<"1">>, <<"-">>, <<".">>, <<" ">>, <<"\n">>, <<",">>, <<"'">>, <<":">>,
     <<"a", "b">>, SentinelNone, PrefixNo}

Responses == {Concat(q) : q \in SeqUpTo(ResponseTokens, MaxResponseTokens)}

\* "result.split(/[\n,]/)": the pieces between separators, empty ones kept
RECURSIVE SplitOn(_, _)
SplitOn(s, seps) ==
    LET n == RunNotIn(s, 1, seps)
    IN IF n = Len(s) THEN <<s>>
       ELSE <<SubSeq(s, 1, n)>> \o SplitOn(SubSeq(s, n + 2, Len(s)), seps)

\* "item.replace(/^[-<U+2022>*\d.)\]]+\s*/, '')"
StripMarker(item) ==
    LET n == RunIn(item, 1, MarkerChars)
    IN IF n = 0 THEN item
       ELSE SubSeq(item, n + RunIn(item, n + 1, Whitespace) + 1, Len(item))

\* "item.replace(/^[\"']|[\"']$/g, '')"
StripQuotes(item) ==
    LET a == IF item = <<>> THEN item
             ELSE IF item[1] \in Quotes THEN Tail(item) ELSE item
    IN IF a = <<>> THEN a
       ELSE IF a[Len(a)] \in Quotes THEN SubSeq(a, 1, Len(a) - 1) ELSE a

\* "/^[a-z\s]+:$/i.test(item)"
IsCategoryLabel(item) ==
    IF Len(item) < 2 THEN FALSE
    ELSE /\ item[Len(item)] = ":"
         /\ RunIn(item, 1, Letters \cup Whitespace) = Len(item) - 1

\* the filter of the parsed items
KeepItem(item) ==
    /\ Len(item) > 1
    /\ item # SentinelNone
    /\ ~Includes(ToLowerCase(item), PhraseNoneFound)
    /\ ~StartsWith(ToLowerCase(item), PrefixNo)
    /\ ~IsCategoryLabel(item)

\* "llamaEntities": split, trim, strip markers, strip quotes, filter
LlamaEntities(result) ==
    LET pieces == SplitOn(result, {"\n", ","})
        items == [i \in 1..Len(pieces) |-> StripQuotes(StripMarker(Trim(pieces[i])))]
    IN SelectSeq(items, KeepItem)

\* "[...new Set(allEntities.map(e => e.trim()).filter(e => e.length > 1))]"
RECURSIVE TrimmedSet(_, _)
TrimmedSet(findings, entities) ==
    IF entities = <<>> THEN findings
    ELSE TrimmedSet(IF Len(Trim(entities[1])) > 1
                    THEN SetAdd(findings, Trim(entities[1]))
                    ELSE findings,
                    Tail(entities))

\* detectWithLlama from the completion's content to its return value, the
\* matches of getRegexMatches given
ParseLlama(content, regexEntities) ==
    LET result == Trim(content)
    IN IF \/ result = SentinelNone
          \/ Includes(ToLowerCase(result), PhraseNoPii)
          \/ Includes(ToLowerCase(result), PhraseNoSensitive)
       THEN regexEntities
       ELSE TrimmedSet(<<>>, LlamaEntities(result) \o regexEntities)

\* detectWithLlama at "await llamaEngine.chat.completions.create(...)" in a
\* deep scan of a text where getRegexMatches found nothing
ParseInit ==
    /\ doc \in {[hasText |-> TRUE, patterns |-> <<>>, bert |-> <<>>, llama |-> <<>>,
                 response |-> r] : r \in Responses}
    /\ scanPc = "completion"
    /\ currentMode = "deep"
    /\ currentDocType = "auto"
    /\ activePresets = <<>>
    /\ customKeywords = <<>>
    /\ offlineMode = FALSE
    /\ bertClassifier = TRUE
    /\ llamaEngine = TRUE
    /\ detectedEntities = <<>>
    /\ manualEntities = <<>>
    /\ intelFindings = <<>>
    /\ modePc = "idle"
    /\ statusText = InitialStatus(TRUE, TRUE)
    /\ scanLog = NoScan
    /\ scanText = NoText

\* the completion arrives: detectWithLlama parses it and returns bare strings
DetectWithLlama ==
    /\ scanPc = "completion"
    /\ LET entities == ParseLlama(doc.response, <<>>)
       IN doc' = [doc EXCEPT !.llama = [i \in 1..Len(entities) |-> [str |-> entities[i]]]]
    /\ scanPc' = "parsed"
    /\ UNCHANGED <<currentMode, currentDocType, activePresets, customKeywords,
                   offlineMode, bertClassifier, llamaEngine, detectedEntities,
                   manualEntities, intelFindings, modePc, statusText, scanLog>>
    /\ UNCHANGED scanText
    /\ UNCHANGED fuseVars
    /\ UNCHANGED shellVars
    /\ UNCHANGED matchVars
    /\ UNCHANGED viewVars

-----------------------------------------------------------------------------
(* The two normalizations applied to a string, then to their own result *)

\* the longest string normalized
MaxStringLen == 5

StringChars == {" ", "\t", "\n", "A", "a"}

Strings == SeqUpTo(StringChars, MaxStringLen)

\* a text about to be normalized by runScan's dedup and by the server
NormalizeInit ==
    /\ doc \in {[hasText |-> TRUE, patterns |-> <<>>, bert |-> <<>>, llama |-> <<>>,
                 text |-> t, key |-> <<>>, word |-> <<>>] : t \in Strings}
    /\ scanPc = "normalize"
    /\ currentMode = "fast"
    /\ currentDocType = "auto"
    /\ activePresets = <<>>
    /\ customKeywords = <<>>
    /\ offlineMode = FALSE
    /\ bertClassifier = TRUE
    /\ llamaEngine = FALSE
    /\ detectedEntities = <<>>
    /\ manualEntities = <<>>
    /\ intelFindings = <<>>
    /\ modePc = "idle"
    /\ statusText = InitialStatus(TRUE, FALSE)
    /\ scanLog = NoScan
    /\ scanText = NoText

\* the dedup key and the server's normalized word of the text
NormalizeOnce ==
    /\ scanPc = "normalize"
    /\ doc' = [doc EXCEPT !.key = NormalizeKey(doc.text), !.word = NormalizeWord(doc.text)]
    /\ scanPc' = "once"
    /\ UNCHANGED <<currentMode, currentDocType, activePresets, customKeywords,
                   offlineMode, bertClassifier, llamaEngine, detectedEntities,
                   manualEntities, intelFindings, modePc, statusText, scanLog>>
    /\ UNCHANGED scanText
    /\ UNCHANGED fuseVars
    /\ UNCHANGED shellVars
    /\ UNCHANGED matchVars
    /\ UNCHANGED viewVars

\* the results normalized again (a key or a word fed back as a text)
NormalizeAgain ==
    /\ scanPc = "once"
    /\ doc' = [doc EXCEPT !.text = doc.key, !.key = NormalizeKey(doc.key),
                          !.word = NormalizeWord(doc.word)]
    /\ scanPc' = "twice"
    /\ UNCHANGED <<currentMode, currentDocType, activePresets, customKeywords,
                   offlineMode, bertClassifier, llamaEngine, detectedEntities,
                   manualEntities, intelFindings, modePc, statusText, scanLog>>
    /\ UNCHANGED scanText
    /\ UNCHANGED fuseVars
    /\ UNCHANGED shellVars
    /\ UNCHANGED matchVars
    /\ UNCHANGED viewVars

NormalizeNext == NormalizeOnce \/ NormalizeAgain

-----------------------------------------------------------------------------
(* A scan of a new text after an earlier scan *)

\* what the scan of the text loaded before left in detectedEntities
PreviousLists ==
    {<<[text |-> ItemAlmeida, score |-> 95, type |-> "PER", source |-> "bert"]>>,
     <<[text |-> ItemAlmeida, score |-> IntelScore, type |-> "pattern", source |-> "intel"],
       [text |-> MatchDomain, score |-> IntelScore, type |-> "pattern", source |-> "intel"]>>}

\* a new text is in the input, the lists are those of the work before
RescanInit ==
    /\ doc \in Docs
    /\ doc.hasText
    /\ detectedEntities \in PreviousLists
    /\ manualEntities \in SeqUpTo(SelectionVocab, MaxManual)
    /\ offlineMode \in BOOLEAN
    /\ llamaEngine \in BOOLEAN
    /\ bertClassifier = TRUE
    /\ currentMode \in (IF llamaEngine THEN {"fast", "deep"} ELSE {"fast"})
    /\ currentDocType = "auto"
    /\ activePresets \in {<<>>, <<"bank-statement">>}
    /\ customKeywords = <<>>
    /\ scanPc = "idle"
    /\ intelFindings = <<>>
    /\ modePc = "idle"
    /\ statusText = InitialStatus(bertClassifier, llamaEngine)
    /\ scanLog = NoScan
    /\ scanText = NoText

RescanNext ==
    \/ RunScanOffline
    \/ RunScanStart
    \/ LlamaFallsBack
    \/ RunScanFuse
    \/ AddManualEntity

-----------------------------------------------------------------------------
(* The entity list on its way to the server *)

\* an amount such as '1,200.00' and a 'Last, First' name, shortened
TextAmount   == <<"1", ",", "2">>
TextLastName == <<"B", ",", " ", "A", "l">>

TransportVocab ==
    [text : {TextAmount, TextLastName, ItemAl}, score : {IntelScore},
     type : {"pattern"}, source : {"intel"}]

\* a loaded page and entity lists with and without commas in the texts
TransportInit ==
    /\ pageItems \in SeqUpTo({TextAmount, TextLastName, ItemAl}, MaxItems)
    /\ highlightClass = [i \in 1..Len(pageItems) |-> "none"]
    /\ rendered = FALSE
    /\ redactPc = "idle"
    /\ formWords = <<>>
    /\ sensitiveWords = <<>>
    /\ redactAnnots = <<>>
    /\ redactReport = NoReport
    /\ detectedEntities \in SeqUpTo(TransportVocab, MaxEntities)
    /\ manualEntities \in SeqUpTo({TextLastName}, MaxManual)
    /\ Distinct(manualEntities)
    /\ doc = [hasText |-> TRUE, patterns |-> <<>>, bert |-> <<>>, llama |-> <<>>]
    /\ currentMode = "fast"
    /\ currentDocType = "auto"
    /\ activePresets = <<>>
    /\ customKeywords = <<>>
    /\ offlineMode = FALSE
    /\ bertClassifier = TRUE
    /\ llamaEngine = FALSE
    /\ scanPc = "idle"
    /\ intelFindings = <<>>
    /\ modePc = "idle"
    /\ statusText = InitialStatus(TRUE, FALSE)
    /\ scanLog = NoScan
    /\ scanText = NoText

\* window.clearAll: the lists, the input text and the viewer are emptied and
\* the sidebar redrawn; a scan that is waiting for its detector is not touched
ClearAll ==
    /\ detectedEntities' = <<>>
    /\ manualEntities' = <<>>
    /\ doc' = NoText
    /\ UNCHANGED <<currentMode, currentDocType, activePresets, customKeywords,
                   offlineMode, bertClassifier, llamaEngine, scanPc, intelFindings,
                   modePc, statusText, scanLog, scanText>>
    /\ pageItems' = <<>>
    /\ highlightClass' = <<>>
    /\ rendered' = FALSE
    /\ UNCHANGED <<redactPc, formWords, sensitiveWords, redactAnnots, redactReport>>
    /\ entityList' = <<>>
    /\ displayPc' = "shown"
    /\ UNCHANGED entitySearchQuery
    /\ UNCHANGED fuseVars
    /\ pdfDocument' = 0
    /\ pdfZoom' = ZoomOne
    /\ currentView' = "text"
    /\ pdfPages' = <<>>
    /\ UNCHANGED <<currentPdfPage, renders, navLog, shortcutListeners, setupVars>>

\* scans, manual additions and clearAll in any order
ClearNext == RescanNext \/ ClearAll

-----------------------------------------------------------------------------
(* The PDF viewer: loading, navigation, zoom and the renders they start *)

\* what extractTextFromPDF may put in the input: a text with one rule match,
\* and a text with none
PdfTexts ==
    {[hasText |-> TRUE, patterns |-> p, bert |-> <<>>, llama |-> <<>>] :
        p \in {<<>>, <<MatchDomain>>}}

\* "allEntities" of displayEntities for given lists
EntitiesOf(detected, manual) ==
    [i \in 1..Len(detected) |->
        LET e == detected[i]
        IN  IF IsString(e)
            THEN [text |-> e.str, score |-> <<>>, source |-> "ai",
                  entityType |-> "unknown", type |-> "auto", index |-> i - 1]
            ELSE [text |-> e.text, score |-> <<e.score>>, source |-> e.source,
                  entityType |-> e.type, type |-> "auto", index |-> i - 1]]
    \o
    [i \in 1..Len(manual) |->
        [text |-> manual[i], score |-> <<100>>, source |-> "manual",
         entityType |-> "manual", type |-> "manual", index |-> i - 1]]

\* what displayEntities() draws for given lists
Displayed(detected, manual) ==
    SortByScore(<<>>, FilterEntities(EntitiesOf(detected, manual), entitySearchQuery))

\* the sequence without its i-th element: splice(i - 1, 1)
Splice(seq, i) == SubSeq(seq, 1, i - 1) \o SubSeq(seq, i + 1, Len(seq))

\* handleFile for a PDF, from the assignment of pdfDocument in renderPDF: the
\* extracted text is in the input, the container is emptied, the page is 1
\* and renderPage(1) is started
LoadPDF ==
    /\ CanRender(1)
    /\ \E numPages \in 1..MaxPages : pdfDocument' = numPages
    /\ \E text \in PdfTexts : doc' = text
    /\ pdfPages' = <<>>
    /\ currentPdfPage' = 1
    /\ renders' = Append(renders, Render(1, TRUE))
    /\ navLog' = [key |-> "load", from |-> currentPdfPage]
    /\ UNCHANGED <<pdfZoom, currentView, shortcutListeners, setupVars>>
    /\ UNCHANGED <<currentMode, currentDocType, activePresets, customKeywords,
                   offlineMode, bertClassifier, llamaEngine, detectedEntities,
                   manualEntities, scanPc, intelFindings, modePc, statusText,
                   scanLog, scanText>>
    /\ UNCHANGED fuseVars
    /\ UNCHANGED matchVars
    /\ UNCHANGED viewVars

\* a renderPage call reaches its last line and appends its wrapper; the call
\* renderPDF awaited is followed by switchView('pdf'), which renders again
\* when there are entities to highlight
RenderDone ==
    /\ \E i \in 1..Len(renders) :
          LET r == renders[i]
              others == Splice(renders, i)
              again == r.thenView /\ pdfDocument # 0
                       /\ (detectedEntities # <<>> \/ manualEntities # <<>>)
          IN  /\ currentView' = IF r.thenView THEN "pdf" ELSE currentView
              /\ pdfPages' = IF again THEN <<>> ELSE Append(pdfPages, r.page)
              /\ renders' = IF again
                            THEN Append(others, Render(currentPdfPage, FALSE))
                            ELSE others
    /\ UNCHANGED <<pdfDocument, currentPdfPage, pdfZoom, navLog>>
    /\ UNCHANGED <<shortcutListeners, setupVars>>
    /\ UNCHANGED appVars
    /\ UNCHANGED fuseVars
    /\ UNCHANGED matchVars
    /\ UNCHANGED viewVars

\* window.switchView up to the text overlay
SwitchView ==
    /\ \E view \in {"text", "pdf"} :
          /\ currentView' = view
          /\ IF view = "pdf" /\ (detectedEntities # <<>> \/ manualEntities # <<>>)
             THEN ReRenderPDF(currentPdfPage, 1)
             ELSE UNCHANGED <<pdfPages, renders>>
    /\ UNCHANGED <<pdfDocument, currentPdfPage, pdfZoom, navLog>>
    /\ UNCHANGED <<shortcutListeners, setupVars>>
    /\ UNCHANGED appVars
    /\ UNCHANGED fuseVars
    /\ UNCHANGED matchVars
    /\ UNCHANGED viewVars

\* window.pdfZoomIn and window.pdfZoomOut
PdfZoomIn ==
    /\ pdfZoom < ZoomMax
    /\ pdfZoom' = pdfZoom + 1
    /\ ReRenderPDF(currentPdfPage, 1)
    /\ UNCHANGED <<pdfDocument, currentPdfPage, currentView, navLog>>
    /\ UNCHANGED <<shortcutListeners, setupVars>>
    /\ UNCHANGED appVars
    /\ UNCHANGED fuseVars
    /\ UNCHANGED matchVars
    /\ UNCHANGED viewVars

PdfZoomOut ==
    /\ pdfZoom > ZoomMin
    /\ pdfZoom' = pdfZoom - 1
    /\ ReRenderPDF(currentPdfPage, 1)
    /\ UNCHANGED <<pdfDocument, currentPdfPage, currentView, navLog>>
    /\ UNCHANGED <<shortcutListeners, setupVars>>
    /\ UNCHANGED appVars
    /\ UNCHANGED fuseVars
    /\ UNCHANGED matchVars
    /\ UNCHANGED viewVars

\* the page a navigation request moves to, and what it does to the viewer:
\* the page is rendered again only when it changed
Goto(key, pageNum, renderIfSame) ==
    /\ currentPdfPage' = pageNum
    /\ navLog' = [key |-> key, from |-> currentPdfPage]
    /\ IF pageNum # currentPdfPage \/ renderIfSame
       THEN ReRenderPDF(pageNum, 1)
       ELSE UNCHANGED <<pdfPages, renders>>
    /\ UNCHANGED <<pdfDocument, pdfZoom, currentView>>
    /\ UNCHANGED <<shortcutListeners, setupVars>>
    /\ UNCHANGED appVars
    /\ UNCHANGED fuseVars
    /\ UNCHANGED matchVars
    /\ UNCHANGED viewVars

\* pdfNextPage without its test of the last page
NextPageUnchecked == currentPdfPage + 1

\* "if (currentPdfPage < pdfDocument.numPages) currentPdfPage++"
NextPage == IF currentPdfPage < pdfDocument THEN currentPdfPage + 1 ELSE currentPdfPage

\* "if (currentPdfPage > 1) currentPdfPage--"
PrevPage == IF currentPdfPage > 1 THEN currentPdfPage - 1 ELSE currentPdfPage

\* window.pdfPrevPage and window.pdfNextPage, from the toolbar buttons
PdfPrevPage ==
    /\ pdfDocument # 0
    /\ Goto("prev", PrevPage, FALSE)

PdfNextPage ==
    /\ pdfDocument # 0
    /\ Goto("next", NextPage, FALSE)

\* the keys of setupPdfKeyboardNav: Home and End with Ctrl or Meta held
NavKeys == {"PageDown", "ArrowRight", "PageUp", "ArrowLeft", "Home", "End"}

\* the keydown listener of setupPdfKeyboardNav, for a key pressed outside an
\* input field
PdfKeyDown ==
    /\ currentView = "pdf"
    /\ pdfDocument # 0
    /\ \E key \in NavKeys :
          CASE key \in {"PageDown", "ArrowRight"} -> Goto("next", NextPage, FALSE)
            [] key \in {"PageUp", "ArrowLeft"}    -> Goto("prev", PrevPage, FALSE)
            [] key = "Home"                       -> Goto("home", 1, TRUE)
            [] key = "End"                        -> Goto("end", pdfDocument, TRUE)

\* window.removeEntity(index, type)
RemoveEntity ==
    /\ \E type \in {"auto", "manual"} :
          LET list == IF type = "auto" THEN detectedEntities ELSE manualEntities
          IN  \E i \in 1..Len(list) :
                  /\ detectedEntities' =
                         IF type = "auto" THEN Splice(list, i) ELSE detectedEntities
                  /\ manualEntities' =
                         IF type = "auto" THEN manualEntities ELSE Splice(list, i)
    /\ entityList' = Displayed(detectedEntities', manualEntities')
    /\ displayPc' = "shown"
    /\ ReRenderPDF(currentPdfPage, 1)
    /\ UNCHANGED <<pdfDocument, currentPdfPage, pdfZoom, currentView, navLog>>
    /\ UNCHANGED <<shortcutListeners, setupVars>>
    /\ UNCHANGED <<doc, currentMode, currentDocType, activePresets, customKeywords,
                   offlineMode, bertClassifier, llamaEngine, scanPc, intelFindings,
                   modePc, statusText, scanLog, scanText>>
    /\ UNCHANGED entitySearchQuery
    /\ UNCHANGED fuseVars
    /\ UNCHANGED matchVars

\* nothing is loaded; offline mode and a preset were chosen
ViewerInit ==
    /\ doc = NoText
    /\ currentMode = "fast"
    /\ currentDocType = "auto"
    /\ activePresets = <<"bank-statement">>
    /\ customKeywords = <<>>
    /\ offlineMode = TRUE
    /\ bertClassifier = FALSE
    /\ llamaEngine = FALSE
    /\ detectedEntities = <<>>
    /\ manualEntities = <<>>
    /\ scanPc = "idle"
    /\ intelFindings = <<>>
    /\ modePc = "idle"
    /\ statusText = InitialStatus(FALSE, FALSE)
    /\ scanLog = NoScan
    /\ scanText = NoText

\* loads and navigation
PagesNext ==
    \/ LoadPDF
    \/ RenderDone
    \/ SwitchView
    \/ PdfPrevPage
    \/ PdfNextPage
    \/ PdfKeyDown

\* every request that renders
ViewerNext ==
    \/ LoadPDF
    \/ RenderDone
    \/ SwitchView
    \/ PdfZoomIn
    \/ PdfZoomOut
    \/ PdfPrevPage
    \/ PdfNextPage
    \/ RunScanOffline
    \/ RemoveEntity

-----------------------------------------------------------------------------
(* The keyboard shortcuts: Ctrl+Z after start-up and after retries *)

\* most manual entities before an undo
MaxUndo == 3

\* the texts the operator selected
UndoVocab == {MatchDomainUpper, ItemAlmeida, ItemAl}

\* one Ctrl+Z (or Cmd+Z) key press: the document dispatches the event to each
\* keydown listener setupKeyboardShortcuts added, in turn, and each one that
\* finds a manual entity pops it, redraws the list and renders the PDF view
UndoManual ==
    /\ manualEntities # <<>>
    /\ LET popped == Min(shortcutListeners, Len(manualEntities))
       IN  /\ manualEntities' = SubSeq(manualEntities, 1, Len(manualEntities) - popped)
           /\ IF currentView = "pdf"
              THEN ReRenderPDF(currentPdfPage, popped)
              ELSE UNCHANGED <<pdfPages, renders>>
    /\ entityList' = Displayed(detectedEntities, manualEntities')
    /\ displayPc' = "shown"
    /\ UNCHANGED <<pdfDocument, currentPdfPage, pdfZoom, currentView, navLog>>
    /\ UNCHANGED <<shortcutListeners, setupVars>>
    /\ UNCHANGED <<doc, currentMode, currentDocType, activePresets, customKeywords,
                   offlineMode, bertClassifier, llamaEngine, detectedEntities,
                   scanPc, intelFindings, modePc, statusText, scanLog, scanText>>
    /\ UNCHANGED entitySearchQuery
    /\ UNCHANGED fuseVars
    /\ UNCHANGED matchVars

\* window.retryInit, from the button shown when the models failed to load:
\* initialize() adds the shortcuts' listener again, then loads the models
RetryInit ==
    /\ ~bertClassifier
    /\ shortcutListeners < MaxListeners
    /\ shortcutListeners' = shortcutListeners + 1
    /\ \E bert \in BOOLEAN, llama \in BOOLEAN :
          /\ llama => bert
          /\ bertClassifier' = bert
          /\ llamaEngine' = llama
          /\ statusText' = IF bert THEN InitialStatus(bert, llama) ELSE statusText
    /\ UNCHANGED <<doc, currentMode, currentDocType, activePresets, customKeywords,
                   offlineMode, detectedEntities, manualEntities, scanPc,
                   intelFindings, modePc, scanLog, scanText>>
    /\ UNCHANGED <<pdfVars, setupVars>>
    /\ UNCHANGED fuseVars
    /\ UNCHANGED matchVars
    /\ UNCHANGED viewVars

\* lists of a session in progress; the models loaded at start-up or not
UndoInit ==
    /\ doc = NoText
    /\ currentMode = "fast"
    /\ currentDocType = "auto"
    /\ activePresets = <<>>
    /\ customKeywords = <<>>
    /\ offlineMode = FALSE
    /\ bertClassifier \in BOOLEAN
    /\ llamaEngine = FALSE
    /\ detectedEntities \in PreviousLists
    /\ manualEntities \in {q \in SeqUpTo(UndoVocab, MaxUndo) : Distinct(q)}
    /\ scanPc = "idle"
    /\ intelFindings = <<>>
    /\ modePc = "idle"
    /\ statusText = InitialStatus(bertClassifier, llamaEngine)
    /\ scanLog = NoScan
    /\ scanText = NoText

UndoNext == UndoManual \/ RetryInit \/ AddManualEntity

-----------------------------------------------------------------------------
(* Model setup: downloadModel of scripts/download-models.js, run after run *)

\* how a download ends: the stream finished; the response had a status other
\* than 200 (after redirects); the request raised an error
Outcomes == {"finish", "status", "error"}

\* downloadFile(url, dest) on a path where no file exists: createWriteStream
\* creates the file; "finish" leaves it written, a rejected status leaves it
\* as created, the request's error handler unlinks it
downloadFile(outcome) ==
    CASE outcome = "finish" -> "complete"
      [] outcome = "status" -> "empty"
      [] outcome = "error"  -> "missing"

\* downloadModel is called for the model
DownloadModelStart ==
    /\ filePos = 0
    /\ filePos' = 1
    /\ allSuccess' = TRUE
    /\ UNCHANGED <<disk, manifest>>
    /\ UNCHANGED <<pdfVars, shortcutListeners>>
    /\ UNCHANGED appVars
    /\ UNCHANGED fuseVars
    /\ UNCHANGED matchVars
    /\ UNCHANGED viewVars

\* one turn of "for (const file of model.files)": a path that exists is
\* skipped, any other is downloaded and a failure clears allSuccess
DownloadModelFile ==
    /\ filePos \in ModelFiles
    /\ filePos' = filePos + 1
    /\ IF disk[filePos] # "missing"
       THEN UNCHANGED <<disk, allSuccess>>
       ELSE \E outcome \in Outcomes :
               /\ disk' = [disk EXCEPT ![filePos] = downloadFile(outcome)]
               /\ allSuccess' = (allSuccess /\ outcome = "finish")
    /\ UNCHANGED manifest
    /\ UNCHANGED <<pdfVars, shortcutListeners>>
    /\ UNCHANGED appVars
    /\ UNCHANGED fuseVars
    /\ UNCHANGED matchVars
    /\ UNCHANGED viewVars

\* after the loop: "if (allSuccess)" the manifest is written
DownloadModelEnd ==
    /\ filePos = MaxFiles + 1
    /\ filePos' = 0
    /\ manifest' = (manifest \/ allSuccess)
    /\ UNCHANGED <<disk, allSuccess>>
    /\ UNCHANGED <<pdfVars, shortcutListeners>>
    /\ UNCHANGED appVars
    /\ UNCHANGED fuseVars
    /\ UNCHANGED matchVars
    /\ UNCHANGED viewVars

SetupNext == DownloadModelStart \/ DownloadModelFile \/ DownloadModelEnd

-----------------------------------------------------------------------------
(* The specifications *)

Next ==
    \/ UseOfflineMode
    \/ SetDocumentType
    \/ TogglePreset
    \/ SetMode
    \/ SetModeResume
    \/ RunScanOffline
    \/ RunScanStart
    \/ LlamaFallsBack
    \/ RunScanFuse
    \/ RunScanFail
    \/ BertFails
    \/ AddManualEntity

Init == AppInit /\ FuseInit /\ ShellIdle /\ MatchIdle /\ ViewIdle

Spec == Init /\ [][Next]_vars

\* the fusion loop on its own, the application at rest
InitFuse == FuseInit /\ ShellIdle /\ AppIdle /\ MatchIdle /\ ViewIdle

SpecFuse == InitFuse /\ [][FuseNext]_vars

\* runScan at its await: the rule scanner has run (or was skipped) and a
\* detector is pending
CombineInit ==
    /\ doc \in Docs
    /\ doc.hasText
    /\ intelFindings \in {<<>>, scanWithIntel(doc.patterns)}
    /\ scanPc \in {"bert", "llama"}
    /\ currentMode = IF scanPc = "llama" THEN "deep" ELSE "fast"
    /\ currentDocType = "auto"
    /\ activePresets = IF intelFindings = <<>> THEN <<>> ELSE <<"bank-statement">>
    /\ customKeywords = <<>>
    /\ offlineMode = FALSE
    /\ bertClassifier = TRUE
    /\ llamaEngine = (scanPc = "llama")
    /\ detectedEntities = <<>>
    /\ manualEntities = <<>>
    /\ modePc = "idle"
    /\ statusText = InitialStatus(bertClassifier, llamaEngine)
    /\ scanLog = NoScan
    /\ scanText = doc

InitCombine == CombineInit /\ FuseInit /\ ShellIdle /\ MatchIdle /\ ViewIdle

CombineNext == RunScanFuse \/ LlamaFallsBack

SpecCombine == InitCombine /\ [][CombineNext]_vars

\* the sidebar drawn for the lists of a finished scan
InitDisplay == DisplayInit /\ FuseInit /\ ShellIdle /\ MatchIdle

SpecDisplay == InitDisplay /\ [][DisplayEntities]_vars

\* the rule scanner applied to a text
InitIntel == IntelInit /\ FuseInit /\ ShellIdle /\ MatchIdle /\ ViewIdle

SpecIntel == InitIntel /\ [][ScanWithIntel]_vars

\* the free-text adapter applied to a response
InitParse == ParseInit /\ FuseInit /\ ShellIdle /\ MatchIdle /\ ViewIdle

SpecParse == InitParse /\ [][DetectWithLlama]_vars

\* the normalizations applied twice
InitNormalize == NormalizeInit /\ FuseInit /\ ShellIdle /\ MatchIdle /\ ViewIdle

SpecNormalize == InitNormalize /\ [][NormalizeNext]_vars

\* scans that follow an earlier scan
InitRescan == RescanInit /\ FuseInit /\ ShellIdle /\ MatchIdle /\ ViewIdle

SpecRescan == InitRescan /\ [][RescanNext]_vars

\* one page between preview and commit, the scan finished
InitMatch == MatchInit /\ FuseInit /\ ShellIdle /\ ViewIdle

SpecMatch == InitMatch /\ [][MatchNext]_vars

\* the same with clearAll
SpecClear == InitRescan /\ [][ClearNext]_vars

\* the viewer: page navigation, then every request that renders
InitViewer == ViewerInit /\ FuseInit /\ ShellIdle /\ MatchIdle /\ ViewIdle

SpecPages == InitViewer /\ [][PagesNext]_vars

SpecViewer == InitViewer /\ [][ViewerNext]_vars

\* undo of manual entities
InitUndo == UndoInit /\ FuseInit /\ ShellIdle /\ MatchIdle /\ ViewIdle

SpecUndo == InitUndo /\ [][UndoNext]_vars

\* setup runs on an empty models directory
InitSetup == AppIdle /\ FuseInit /\ ShellIdle /\ MatchIdle /\ ViewIdle

SpecSetup == InitSetup /\ [][SetupNext]_vars

\* redactions of entity lists with commas in the texts
InitTransport == TransportInit /\ FuseInit /\ ShellIdle /\ ViewIdle

SpecTransport == InitTransport /\ [][ReportNext]_vars

\* a redaction and its report to the operator
SpecReport == InitMatch /\ [][ReportNext]_vars

-----------------------------------------------------------------------------
(* Scan: properties *)

\* the normalization keys of the entity list
Keys(entities) == [i \in 1..Len(entities) |-> NormalizeKey(EntityText(entities[i]))]

\* C1: after any scan, in fast, deep or offline mode, no two entities of
\* detectedEntities have the same normalization key
C1_NoDuplicateKeys == Distinct(Keys(detectedEntities))

\* C2: no entity whose trimmed text has length <= 2 appears in the fused output
\* of a scan, whichever detector emitted it and whichever mode the scan ran in
C2_NoShortEntities ==
    \A i \in 1..Len(detectedEntities) : Len(Trim(EntityText(detectedEntities[i]))) > 2

\* the keys of the manual entities
ManualKeys == [i \in 1..Len(manualEntities) |-> NormalizeKey(manualEntities[i])]

\* C13: adding a manual entity whose normalization key equals that of an
\* entity already in the list (detected or manual) adds no second entry: as
\* long as the detected entities have distinct keys, the combined list of
\* detected and manual entities has distinct keys
C13_ManualAbsorbed ==
    Distinct(Keys(detectedEntities)) => Distinct(Keys(detectedEntities) \o ManualKeys)

\* C15: every scan applies the universal PII patterns to the text whatever
\* the presets: also with no preset, document type 'auto' and no custom
\* keyword, the result of a completed scan contains the universal-pattern
\* matches found in the text (those the length filter lets through)
C15_UniversalPatternsApplied ==
    scanLog.kind \in {"fused", "offline"} =>
        \A i \in 1..Len(doc.patterns) :
            Len(Trim(doc.patterns[i])) > 2 =>
                \E k \in 1..Len(detectedEntities) :
                    Keys(detectedEntities)[k] = NormalizeKey(doc.patterns[i])

\* C19: when the tagger is not loaded or fails during a scan, the scan still
\* completes: the tagger's candidates count as none and the entity list holds
\* the findings of the rule scanner
C19_TaggerFailureTolerated ==
    scanLog.kind = "failed" => detectedEntities = FuseFilter(scanLog.candidates, {})

\* C20: when the Llama engine cannot be loaded, selecting deep mode is not
\* reported as success: once setMode has returned, the status is 'Deep scan
\* ready' only if the engine is loaded, and the current mode is 'deep' only if
\* the engine is loaded
C20_DeepModeNeedsEngine ==
    modePc = "idle" =>
        /\ statusText = "Deep scan ready" => llamaEngine
        /\ currentMode = "deep" => llamaEngine

\* the active presets that exist, and the custom keywords that are not blank
KnownPresets(presets) == SelectSeq(presets, LAMBDA id : id \in DOMAIN INTEL_PRESETS)

NonBlank(keywords) == SelectSeq(keywords, LAMBDA keyword : Trim(keyword) # <<>>)

Delimiters == {":", "=", "\n", ",", ";"}

\* the value that follows the keyword found at pos: past the separator after
\* the keyword (a colon or an equals sign, blanks around it), up to the next
\* delimiter, trimmed
ValueAfter(text, pos, keyword) ==
    LET a == pos + Len(keyword) + RunIn(text, pos + Len(keyword) + 1, {" ", "\t"})
        b == IF a < Len(text) THEN (IF text[a + 1] \in {":", "="} THEN a + 1 ELSE a) ELSE a
        c == b + RunIn(text, b + 1, {" ", "\t"})
    IN Trim(SubSeq(text, c + 1, c + RunNotIn(text, c + 1, Delimiters)))

\* the positions (from 0) where the keyword occurs in the text, case ignored
KeywordOccurrences(text, keyword) ==
    {p \in 0..(Len(text) - Len(keyword)) :
        SubSeq(ToLowerCase(text), p + 1, p + Len(keyword)) = ToLowerCase(keyword)}

\* C16: for every occurrence of a keyword of an active preset, the scanner
\* returns the value that follows the keyword up to the next delimiter,
\* trimmed, when it is longer than 2 characters, is not the keyword and is
\* not a stop word
C16_KeywordValuesEmitted ==
    scanPc = "scanned" =>
        \A i \in 1..Len(KnownPresets(PresetsToUse)) :
            LET keywords == INTEL_PRESETS[KnownPresets(PresetsToUse)[i]].keywords
            IN \A k \in 1..Len(keywords) :
                   \A p \in KeywordOccurrences(doc.text, keywords[k]) :
                       LET value == ValueAfter(doc.text, p, keywords[k])
                       IN (/\ Len(value) > 2
                           /\ ToLowerCase(value) # ToLowerCase(keywords[k])
                           /\ ~isCommonWord(value))
                          => \E f \in 1..Len(intelFindings) : intelFindings[f] = value

\* C17: the scanner's output has no two candidates with the same normalized
\* string and no candidate whose trimmed length is below 2
C17_ScannerOutputNormalized ==
    scanPc = "scanned" =>
        /\ Distinct([i \in 1..Len(intelFindings) |-> NormalizeKey(intelFindings[i])])
        /\ \A i \in 1..Len(intelFindings) : Len(Trim(intelFindings[i])) >= 2

\* a leading list marker as the adapter's contract names it: '-', U+2022 or
\* '*', or digits followed by '.' or ')', with the whitespace after it
StripNumbering(item) ==
    LET d == RunIn(item, 1, Digits)
        n == IF d > 0
             THEN (IF d < Len(item)
                   THEN (IF item[d + 1] \in {".", ")"} THEN d + 1 ELSE 0)
                   ELSE 0)
             ELSE RunIn(SubSeq(item, 1, Min(1, Len(item))), 1, {"-", Bullet, "*"})
    IN IF n = 0 THEN item
       ELSE SubSeq(item, n + RunIn(item, n + 1, Whitespace) + 1, Len(item))

\* an item the adapter discards: empty, the sentinel, a negative-result
\* phrase or a bare category label
Discarded(item) ==
    \/ item = <<>>
    \/ item = SentinelNone
    \/ Includes(ToLowerCase(item), PhraseNoneFound)
    \/ Includes(ToLowerCase(item), PhraseNoPii)
    \/ Includes(ToLowerCase(item), PhraseNoSensitive)
    \/ StartsWith(ToLowerCase(item), PrefixNo)
    \/ IsCategoryLabel(item)

\* the items of the response, list marker and wrapping quotes removed
ResponseItems ==
    LET pieces == SplitOn(doc.response, {"\n", ","})
    IN [i \in 1..Len(pieces) |-> Trim(StripQuotes(StripNumbering(Trim(pieces[i]))))]

\* C18: the adapter keeps every item of the response that is not empty, the
\* sentinel, a negative-result phrase or a category label, changed only by
\* the removal of a leading list marker and of wrapping quotes (items that
\* begin with digits included), and returns nothing else
C18_ItemsKeptVerbatim ==
    scanPc = "parsed" =>
        /\ \A i \in 1..Len(ResponseItems) :
               Discarded(ResponseItems[i]) \/
               \E k \in 1..Len(doc.llama) : doc.llama[k].str = ResponseItems[i]
        /\ \A k \in 1..Len(doc.llama) :
               \E i \in 1..Len(ResponseItems) :
                   ~Discarded(ResponseItems[i]) /\ doc.llama[k].str = ResponseItems[i]

ScanFindings(log) ==
    IF log.kind = "fused" THEN FuseFilter(log.candidates, {}) ELSE log.candidates

\* C23: a successful re-scan replaces the detected-entity list entirely with
\* the findings of the new scan and leaves the manual entity list unchanged:
\* in every step that completes a scan or changes the detected list, the new
\* list is exactly what the scan's own candidates give, and the manual list
\* is the same before and after
C23_RescanReplaces ==
    [][ ( \/ scanPc \in {"bert", "llama"} /\ scanPc' = "idle"
          \/ scanLog' # scanLog
          \/ detectedEntities' # detectedEntities )
        => /\ scanLog'.kind \in {"fused", "offline"}
           /\ detectedEntities' = ScanFindings(scanLog')
           /\ manualEntities' = manualEntities ]_vars

\* a scan completed over the list of an earlier scan, with a manual entity
\* present: it found something, and nothing of the earlier list is left
C23_Witness ==
    /\ scanLog.kind = "fused"
    /\ manualEntities # <<>>
    /\ detectedEntities # <<>>
    /\ \A i \in 1..Len(detectedEntities) :
           EntityText(detectedEntities[i]) \notin {ItemAlmeida, MatchDomain}

\* the entities of the request for which the server produced a region
LocatedTexts ==
    SelectSeq(AllEntityTexts, LAMBDA text : TextInstances(PageText, text) # <<>>)

\* C21: an entity with zero match regions is reported: the count reported as
\* redacted by the success toast of runRedaction is the number of entities
\* for which a region was produced
C21_ReportCountsLocated ==
    (redactPc = "reported" /\ redactReport.type = "success") =>
        redactReport.items = Len(LocatedTexts)

\* C27: the entity list survives transport unchanged: the 'words' string of
\* the request, split on ',', is the list of entity texts that was joined,
\* also when a text contains a comma
C27_TransportRoundTrip ==
    redactPc # "idle" => SplitComma(formWords) = AllEntityTexts

\* C25: after clearAll the detected entity list is empty and stays empty
\* until a scan is started after the clear (which needs a new text): while
\* the input is empty, as clearAll left it, no entity is detected, so a scan
\* started before clearAll does not fill the list when it completes
C25_ClearStaysClear ==
    ~doc.hasText => detectedEntities = <<>>

\* the candidates the last fusion was given, and their texts
Candidates == scanLog.candidates
CandidateText(i) == EntityText(Candidates[i])

\* candidate i passes the length filter and no earlier one that passes it
\* has its key
FirstOfKey(i) ==
    /\ Len(Trim(CandidateText(i))) > 2
    /\ \A j \in 1..(i - 1) :
          Len(Trim(CandidateText(j))) > 2 =>
              NormalizeKey(CandidateText(j)) # NormalizeKey(CandidateText(i))

FirstIndexes == {i \in 1..Len(Candidates) : FirstOfKey(i)}

\* C11: of the candidates given to fusion that share a normalization key,
\* the fused output keeps the first in concatenation order (AI findings, then
\* rule findings) as it is (casing, score, source, type) and drops the later
\* ones: the output is the candidates that are first of their key, in order
C11_FirstSeenKept ==
    scanLog.kind = "fused" =>
        /\ Len(detectedEntities) = Cardinality(FirstIndexes)
        /\ \A i \in FirstIndexes :
              detectedEntities[Cardinality({j \in FirstIndexes : j <= i})] = Candidates[i]

\* an AI finding and a later rule finding share a key: the AI finding is kept
C11_Witness ==
    /\ scanLog.kind = "fused"
    /\ \E i, j \in 1..Len(Candidates) :
          /\ i < j
          /\ FirstOfKey(i)
          /\ NormalizeKey(CandidateText(i)) = NormalizeKey(CandidateText(j))
          /\ Candidates[i] # Candidates[j]
          /\ ~IsString(Candidates[j]) /\ Candidates[j].source = "intel"
          /\ \E k \in 1..Len(detectedEntities) : detectedEntities[k] = Candidates[i]
          /\ \A k \in 1..Len(detectedEntities) : detectedEntities[k] # Candidates[j]

\* the position in AllEntities of an entry of the list
InsertionOrder(e) ==
    IF e.type = "auto" THEN e.index + 1 ELSE Len(detectedEntities) + e.index + 1

\* C12: the entity list is ordered by descending confidence score, and
\* entities of equal score keep their insertion order (detected entities in
\* fusion order, then manual entities); it holds the entities the filter lets
\* through, each once
C12_SortedStable ==
    displayPc = "shown" =>
        LET shown == FilterEntities(AllEntities, entitySearchQuery)
        IN  /\ Len(entityList) = Len(shown)
            /\ \A i \in 1..Len(shown) : \E k \in 1..Len(entityList) : entityList[k] = shown[i]
            /\ \A k \in 1..(Len(entityList) - 1) :
                  \/ ScoreOrZero(entityList[k]) > ScoreOrZero(entityList[k + 1])
                  \/ /\ ScoreOrZero(entityList[k]) = ScoreOrZero(entityList[k + 1])
                     /\ InsertionOrder(entityList[k]) < InsertionOrder(entityList[k + 1])

\* a manual entity moved ahead of the detected ones, two detected entities of
\* equal score left in their order
C12_Witness ==
    /\ displayPc = "shown"
    /\ Len(entityList) = 3
    /\ entityList[1].type = "manual"
    /\ ScoreOrZero(entityList[2]) = ScoreOrZero(entityList[3])
    /\ entityList[2].index = 0 /\ entityList[3].index = 1

-----------------------------------------------------------------------------
(* Preview and commit: properties *)

\* case ignored, whitespace runs collapsed to one space
Fold(s) == CollapseWhitespace(ToLowerCase(s))

\* the stretches p..q of the page, delimited by visible characters, that equal
\* the word once both are folded (the two end characters are compared first:
\* stretches that differ there cannot be equal)
Occurrences(page, word) ==
    LET target == Fold(Trim(word))
    IN  {pq \in (1..Len(page)) \X (1..Len(page)) :
            /\ pq[1] <= pq[2]
            /\ target # <<>>
            /\ LowerChar(page[pq[1]]) = target[1]
            /\ LowerChar(page[pq[2]]) = target[Len(target)]
            /\ Fold(SubSeq(page, pq[1], pq[2])) = target}

\* the annotations the loop added for one word
AnnotsOf(word) == SelectSeq(redactAnnots, LAMBDA a : a.word = word)

\* the first and last character of item i in the page text
ItemFrom(i) == Len(Concat(SubSeq(pageItems, 1, i - 1))) + 1
ItemTo(i) == Len(Concat(SubSeq(pageItems, 1, i)))

\* the items with visible text that the preview highlights
HighlightedItems ==
    {i \in 1..Len(pageItems) : Trim(pageItems[i]) # <<>> /\ highlightClass[i] # "none"}

\* the items with visible text that a redaction region touches
CoveredItems ==
    {i \in 1..Len(pageItems) :
        /\ Trim(pageItems[i]) # <<>>
        /\ \E k \in 1..Len(redactAnnots) :
              redactAnnots[k].from <= ItemTo(i) /\ redactAnnots[k].to >= ItemFrom(i)}

\* C3: for any page and entity list, what the preview highlights is what the
\* redaction regions cover at commit: nothing is highlighted that is not
\* redacted and nothing is redacted that was not highlighted
C3_PreviewEqualsCommit ==
    (rendered /\ redactPc = "done") => HighlightedItems = CoveredItems

\* C4: for every entity and every page, the matcher produces one region per
\* occurrence of the entity's text on the page: n occurrences, exactly n regions
C4_OneRegionPerOccurrence ==
    redactPc = "done" =>
        \A k \in 1..Len(sensitiveWords) :
            Len(AnnotsOf(sensitiveWords[k]))
                = Cardinality(Occurrences(PageText, sensitiveWords[k]))

\* a word occurs three times on the page and has three regions
C4_Witness ==
    /\ redactPc = "done"
    /\ \E k \in 1..Len(sensitiveWords) :
          /\ Cardinality(Occurrences(PageText, sensitiveWords[k])) = 3
          /\ Len(AnnotsOf(sensitiveWords[k])) = 3

\* C5: the matcher finds an occurrence whenever a stretch of page text and
\* the entity text are equal after collapsing whitespace runs and ignoring
\* letter case: each such stretch is the extent of a region of that entity
C5_FindsFoldedOccurrences ==
    redactPc = "done" =>
        \A k \in 1..Len(sensitiveWords) :
            \A pq \in Occurrences(PageText, sensitiveWords[k]) :
                \E a \in 1..Len(redactAnnots) :
                    /\ redactAnnots[a].word = sensitiveWords[k]
                    /\ redactAnnots[a].from = pq[1]
                    /\ redactAnnots[a].to = pq[2]

\* page "Almeida" then "L  PINTO   DOS  SANTOS", entities "ALMEIDA" and
\* "L PINTO DOS SANTOS": one region each, spanning the whole of its text
C5_Witness ==
    /\ redactPc = "done"
    /\ pageItems = <<ItemAlmeida, ItemSantos>>
    /\ sensitiveWords = <<WordALMEIDA, WordSantos>>
    /\ redactAnnots = <<[word |-> WordALMEIDA, from |-> 1, to |-> 7],
                        [word |-> WordSantos, from |-> 8, to |-> 29]>>

-----------------------------------------------------------------------------
(* Token fusion: properties *)

\* every accumulator built so far with the tokens merged into it: the closed
\* ones and, while the loop runs, the open one
Accumulators ==
    closed \o (IF fpc = "loop" /\ currentEntity # <<>>
               THEN <<[entity |-> currentEntity[1], tokens |-> members]>>
               ELSE <<>>)

\* the closed accumulators longer than one character, oldest first
LongSpans == SelectSeq(closed, LAMBDA a : Len(a.entity.text) > 1)

\* the text the merge rules give for a run of tokens: the first word, then
\* each sub-word piece glued on and each whole word after one space
RECURSIVE JoinWords(_)
JoinWords(toks) ==
    IF toks = <<>> THEN <<>>
    ELSE IF Len(toks) = 1 THEN StripSubword(toks[1].word)
    ELSE LET front == JoinWords(SubSeq(toks, 1, Len(toks) - 1))
             w     == toks[Len(toks)].word
         IN  IF Len(w) >= 2 /\ w[1] = "#" /\ w[2] = "#"
             THEN front \o SubSeq(w, 3, Len(w))
             ELSE front \o <<" ">> \o w

RECURSIVE MaxScore(_)
MaxScore(toks) ==
    IF Len(toks) = 1 THEN toks[1].score
    ELSE LET m == MaxScore(Tail(toks))
         IN  IF toks[1].score >= m THEN toks[1].score ELSE m

RECURSIVE TokenCount(_)
TokenCount(accs) ==
    IF accs = <<>> THEN 0 ELSE Len(accs[1].tokens) + TokenCount(Tail(accs))

TextJohnson     == <<"J","o","h","n","s","o","n">>
TextNewYork     == <<"N","e","w"," ","Y","o","r","k">>
TextJohnsonYork == <<"J","o","h","n","s","o","n"," ","Y","o","r","k">>

\* C6: a token that continues the accumulator extends its text: a sub-word
\* piece ('##...') is concatenated without a space, a whole word is appended
\* after exactly one space; B-PER 'John' + I-PER '##son' is 'Johnson' and
\* B-LOC 'New' + I-LOC 'York' is 'New York'.
C6_ContinuationExtends ==
    \A i \in 1..Len(Accumulators) :
        LET a == Accumulators[i] IN
        /\ a.entity.text = JoinWords(a.tokens)
        /\ ( /\ Len(a.tokens) = 2
             /\ a.tokens[1] \in [entity : {TagBPER}, word : {WordJohn}, score : TokenScores]
             /\ a.tokens[2] \in [entity : {TagIPER}, word : {WordSon}, score : TokenScores] )
           => a.entity.text = TextJohnson
        /\ ( /\ Len(a.tokens) = 2
             /\ a.tokens[1] \in [entity : {TagBLOC}, word : {WordNew}, score : TokenScores]
             /\ a.tokens[2] \in [entity : {TagILOC}, word : {WordYork}, score : TokenScores] )
           => a.entity.text = TextNewYork

\* a sub-word piece and a whole word were both merged into one emitted entity
C6_Witness ==
    /\ fpc = "done"
    /\ \E i \in 1..Len(mergedEntities) : mergedEntities[i].text = TextJohnsonYork

\* C7: a retained token whose type differs from the accumulator's closes it
\* and opens a new entity, also when it is an I- token: no accumulator holds
\* tokens of two types.
C7_NoMixedTypes ==
    \A i \in 1..Len(Accumulators) :
        \A k \in 1..Len(Accumulators[i].tokens) :
            EntityType(Accumulators[i].tokens[k].entity) = Accumulators[i].entity.type

\* an I-LOC token arrived while a PER accumulator was open, and both were emitted
C7_Witness ==
    /\ fpc = "done"
    /\ Len(mergedEntities) = 2
    /\ Len(closed) = 2
    /\ closed[1].entity.type = <<"P","E","R">>
    /\ closed[2].tokens[1].entity = TagILOC

\* C8: tokens scoring below 0.5 or tagged O are dropped: every emitted entity
\* is made of tokens with score >= 0.5 and a tag other than O only.
C8_OnlyRetainedTokens ==
    /\ Len(mergedEntities) = Len(LongSpans)
    /\ \A i \in 1..Len(mergedEntities) :
          /\ mergedEntities[i].text = JoinWords(LongSpans[i].tokens)
          /\ \A k \in 1..Len(LongSpans[i].tokens) :
                /\ LongSpans[i].tokens[k].score >= 50
                /\ LongSpans[i].tokens[k].entity # <<"O">>

\* an entity was emitted from a stream in which a token was dropped
C8_Witness ==
    /\ fpc = "done"
    /\ mergedEntities # <<>>
    /\ idx > TokenCount(closed)

\* C9: an emitted entity's score is the maximum of its tokens' scores.
C9_ScoreIsMaximum ==
    /\ Len(mergedEntities) = Len(LongSpans)
    /\ \A i \in 1..Len(mergedEntities) :
          mergedEntities[i].score = MaxScore(LongSpans[i].tokens)

\* entities were emitted whose best token came last, and whose best token came first
C9_Witness ==
    /\ fpc = "done"
    /\ \E i \in 1..Len(mergedEntities) :
          /\ Len(LongSpans[i].tokens) = 2
          /\ LongSpans[i].tokens[1].score < LongSpans[i].tokens[2].score
    /\ \E i \in 1..Len(mergedEntities) :
          /\ Len(LongSpans[i].tokens) = 1

\* C10: every accumulated span longer than one character is emitted exactly
\* once, in order, the last one when the stream ends; a span of one character
\* or less is never emitted.
C10_EmitsEachSpanOnce ==
    /\ \A i \in 1..Len(mergedEntities) : Len(mergedEntities[i].text) > 1
    /\ Len(mergedEntities) = Len(LongSpans)
    /\ \A i \in 1..Len(mergedEntities) :
          /\ mergedEntities[i].text = LongSpans[i].entity.text
          /\ mergedEntities[i].type = LongSpans[i].entity.type
    /\ fpc = "done" /\ currentEntity # <<>> =>
          /\ closed # <<>>
          /\ closed[Len(closed)].entity = currentEntity[1]
          /\ Len(currentEntity[1].text) > 1 =>
                /\ mergedEntities # <<>>
                /\ mergedEntities[Len(mergedEntities)].text = currentEntity[1].text

\* a one-character span was discarded when a new entity started, a later one
\* was discarded at the end of the stream, and the span between was emitted
C10_Witness ==
    /\ fpc = "done"
    /\ Len(closed) = 3
    /\ Len(closed[1].entity.text) <= 1
    /\ Len(closed[2].entity.text) > 1
    /\ Len(closed[3].entity.text) <= 1
    /\ Len(mergedEntities) = 1

\* C28: a dropped token (score below 0.5 or tag O) leaves the accumulator
\* unchanged: after a drop the accumulator is still open, it holds the tokens
\* it held before the drop and those retained since, and its text, type and
\* score are those of all these tokens merged, so a later inside token of the
\* same type was merged into the span that preceded the dropped token
C28_DropKeepsAccumulator ==
    dropAt >= 1 =>
        /\ currentEntity # <<>>
        /\ Len(members) >= dropAt
        /\ currentEntity[1].text = JoinWords(members)
        /\ currentEntity[1].score = MaxScore(members)
        /\ \A k \in 1..Len(members) :
               EntityType(members[k].entity) = currentEntity[1].type
        /\ fpc = "done" =>
               /\ closed # <<>>
               /\ closed[Len(closed)].tokens = members

\* 'John', a dropped token, then '##son': 'Johnson' was emitted
C28_Witness ==
    /\ fpc = "done"
    /\ dropAt = 1
    /\ Len(members) = 2
    /\ mergedEntities = <<[text |-> TextJohnson, score |-> currentEntity[1].score,
                           type |-> <<"P","E","R">>, source |-> "bert"]>>

-----------------------------------------------------------------------------
(* The PDF viewer: properties *)

\* C30: while a PDF is loaded the current page is between 1 and numPages, and
\* it is where the last navigation request put it: Prev goes one page back
\* and does nothing on page 1, Next goes one page on and does nothing on the
\* last page, Ctrl+Home gives page 1, Ctrl+End the last page, and a load
\* gives page 1
C30_PageInRange ==
    pdfDocument # 0 =>
        /\ 1 <= currentPdfPage
        /\ currentPdfPage <= pdfDocument
        /\ navLog.key = "prev" =>
               currentPdfPage = IF navLog.from > 1 THEN navLog.from - 1 ELSE 1
        /\ navLog.key = "next" =>
               currentPdfPage =
                   IF navLog.from < pdfDocument THEN navLog.from + 1 ELSE pdfDocument
        /\ navLog.key = "home" => currentPdfPage = 1
        /\ navLog.key = "end" => currentPdfPage = pdfDocument
        /\ navLog.key = "load" => currentPdfPage = 1

\* Next was requested on the last page of a document of several pages
C30_Witness ==
    /\ pdfDocument > 1
    /\ navLog.key = "next"
    /\ navLog.from = pdfDocument

\* C26: a step that removes manual entities by Ctrl+Z (the only step that
\* shortens the manual list here) removes exactly the most recently added
\* one, and leaves the others and the detected entities as they were
C26_UndoRemovesOne ==
    [][Len(manualEntities') < Len(manualEntities) =>
           /\ manualEntities' = SubSeq(manualEntities, 1, Len(manualEntities) - 1)
           /\ detectedEntities' = detectedEntities]_vars

\* C29: a manifest.json is on disk only when every file of the model is
\* completely present: never beside a missing or an empty file
C29_ManifestMeansComplete ==
    manifest => \A f \in ModelFiles : disk[f] = "complete"

\* C24: once every render has finished, the page container of a loaded
\* document holds exactly one page wrapper, that of the current page
C24_SinglePage ==
    pdfDocument # 0 /\ renders = <<>> => pdfPages = <<currentPdfPage>>

=============================================================================
